---- MODULE Spec2Model ----
(***************************************************************************)
(* A model of the record filtering engine of the Playwright test runner:  *)
(* PlaywrightTraceFilter (trace pipeline) and NetworkTraceFilter (network *)
(* pipeline).  JavaScript objects are TLA+ records: a field is present    *)
(* iff its name is in the DOMAIN of the record.  Strings are TLA+ strings *)
(* and the string methods the code uses (trim, toLowerCase, includes,     *)
(* startsWith, endsWith, split) are computed character by character.      *)
(***************************************************************************)
EXTENDS Integers, Sequences, FiniteSets, TLC

VARIABLES
    pc,              \* "idle", "trace" (inside filterTraceFile), "network" (inside
                     \* filterNetworkTrace), "returned" (the call has just ended)
    traceStats,      \* PlaywrightTraceFilter.stats
    netStats,        \* NetworkTraceFilter.stats
    lines,           \* the array "lines" of the call in progress
    idx,             \* index of the next line the loop will take
    options,         \* the option bundle of the call in progress
    filteredEntries, \* the local array filteredEntries of the call in progress
    traceCalls,      \* number of filterTraceFile calls started on the instance
    netCalls,        \* number of filterNetworkTrace calls started on the instance
    lastCall,        \* what the last completed call read, wrote and returned
    probe            \* the record, options and result of one rule evaluation

vars == <<pc, traceStats, netStats, lines, idx, options, filteredEntries,
          traceCalls, netCalls, lastCall, probe>>

----------------------------------------------------------------------------
(* Bounds of the model *)

MaxLines == 2

MaxCalls == 2

----------------------------------------------------------------------------
(* JavaScript string methods *)

UpperCaseLetters == "ABCDEFGHIJKLMNOPQRSTUVWXYZ"

LowerCaseLetters == "abcdefghijklmnopqrstuvwxyz"

CharAt(s, i) == SubSeq(s, i, i)

ToLowerChar(c) ==
    IF \E i \in 1..Len(UpperCaseLetters) : CharAt(UpperCaseLetters, i) = c
    THEN LET i == CHOOSE j \in 1..Len(UpperCaseLetters) : CharAt(UpperCaseLetters, j) = c
         IN  CharAt(LowerCaseLetters, i)
    ELSE c

RECURSIVE ToLowerCase(_)
ToLowerCase(s) ==
    IF Len(s) = 0 THEN ""
    ELSE IF Len(s) = 1 THEN ToLowerChar(s)
    ELSE ToLowerCase(SubSeq(s, 1, Len(s) \div 2))
         \o ToLowerCase(SubSeq(s, Len(s) \div 2 + 1, Len(s)))

Includes(s, pattern) ==
    \E i \in 1..(Len(s) - Len(pattern) + 1) : SubSeq(s, i, i + Len(pattern) - 1) = pattern

StartsWith(s, prefix) ==
    Len(prefix) <= Len(s) /\ SubSeq(s, 1, Len(prefix)) = prefix

EndsWith(s, suffix) ==
    Len(suffix) <= Len(s) /\ SubSeq(s, Len(s) - Len(suffix) + 1, Len(s)) = suffix

IsWhiteSpace(c) == c \in {" ", "\t", "\r", "\n"}

RECURSIVE TrimStart(_)
TrimStart(s) ==
    IF Len(s) > 0 /\ IsWhiteSpace(CharAt(s, 1)) THEN TrimStart(SubSeq(s, 2, Len(s))) ELSE s

RECURSIVE TrimEnd(_)
TrimEnd(s) ==
    IF Len(s) > 0 /\ IsWhiteSpace(CharAt(s, Len(s))) THEN TrimEnd(SubSeq(s, 1, Len(s) - 1)) ELSE s

Trim(s) == TrimEnd(TrimStart(s))

\* s.split(sep)[0] for a one-character separator
BeforeFirst(s, sep) ==
    IF \E i \in 1..Len(s) : CharAt(s, i) = sep
    THEN LET i == CHOOSE j \in 1..Len(s) :
                      /\ CharAt(s, j) = sep
                      /\ \A k \in 1..(j - 1) : CharAt(s, k) # sep
         IN  SubSeq(s, 1, i - 1)
    ELSE s

\* s.split("\n")
RECURSIVE SplitLines(_)
SplitLines(s) ==
    IF \E i \in 1..Len(s) : CharAt(s, i) = "\n"
    THEN LET first == BeforeFirst(s, "\n")
         IN  <<first>> \o SplitLines(SubSeq(s, Len(first) + 2, Len(s)))
    ELSE <<s>>

\* parts.join("\n")
RECURSIVE JoinLines(_)
JoinLines(parts) ==
    IF Len(parts) = 0 THEN ""
    ELSE IF Len(parts) = 1 THEN parts[1]
    ELSE parts[1] \o "\n" \o JoinLines(Tail(parts))

----------------------------------------------------------------------------
(* JavaScript objects *)

Has(obj, field) == field \in DOMAIN obj

\* obj.field || fallback, for a string-valued field
StrOr(obj, field, fallback) ==
    IF Has(obj, field) /\ obj[field] # "" THEN obj[field] ELSE fallback

\* the value null, as JSON.parse("null") returns it
JsonNull == [isNull |-> TRUE]

----------------------------------------------------------------------------
(* PlaywrightTraceFilter: options, statistics and the removal rules *)

TraceOptionNames ==
    {"filterConsoleLogs", "removeFrameSnapshots", "removeScreencastFrames",
     "removeUIElements", "truncateStackTraces"}

AllTraceOptions == [TraceOptionNames -> BOOLEAN]

\* createFilterPresets() with console filtering switched on in conservative
createFilterPresetsConservativeFiltersConsole ==
    [conservative |->
        [filterConsoleLogs |-> TRUE, removeFrameSnapshots |-> TRUE,
         removeScreencastFrames |-> FALSE, removeUIElements |-> FALSE,
         truncateStackTraces |-> TRUE],
     minimal |->
        [filterConsoleLogs |-> TRUE, removeFrameSnapshots |-> TRUE,
         removeScreencastFrames |-> TRUE, removeUIElements |-> TRUE,
         truncateStackTraces |-> TRUE],
     moderate |->
        [filterConsoleLogs |-> FALSE, removeFrameSnapshots |-> TRUE,
         removeScreencastFrames |-> TRUE, removeUIElements |-> TRUE,
         truncateStackTraces |-> TRUE]]

\* createFilterPresets()
createFilterPresets ==
    [conservative |->
        [filterConsoleLogs |-> FALSE, removeFrameSnapshots |-> TRUE,
         removeScreencastFrames |-> FALSE, removeUIElements |-> FALSE,
         truncateStackTraces |-> TRUE],
     minimal |->
        [filterConsoleLogs |-> TRUE, removeFrameSnapshots |-> TRUE,
         removeScreencastFrames |-> TRUE, removeUIElements |-> TRUE,
         truncateStackTraces |-> TRUE],
     moderate |->
        [filterConsoleLogs |-> FALSE, removeFrameSnapshots |-> TRUE,
         removeScreencastFrames |-> TRUE, removeUIElements |-> TRUE,
         truncateStackTraces |-> TRUE]]

\* the stats object a PlaywrightTraceFilter is constructed with, and is reset to
\* (sizeBefore and sizeAfter are modelled apart, under SpecSizes)
EmptyTraceStats ==
    [removedByType |-> <<>>, removedEntries |-> 0, totalEntries |-> 0]

importantKeywords ==
    {"error", "warning", "failed", "exception", "uncaught", "test",
     "assertion", "timeout", "network", "xhr", "fetch"}

\* isImportantConsoleLog without toLowerCase()
isImportantConsoleLogCaseSensitive(entry) ==
    \E keyword \in importantKeywords : Includes(StrOr(entry, "text", ""), keyword)

isImportantConsoleLog(entry) ==
    LET text == ToLowerCase(StrOr(entry, "text", ""))
    IN  \E keyword \in importantKeywords : Includes(text, keyword)

StackTraceMinLength == 5000

StackTraceMinLines == 20

StackTraceHeadLines == 10

StackTraceTailLines == 5

\* truncateStackTrace without the test lines.length > 20
truncateStackTraceAnyLineCount(entry, filterOptions) ==
    IF /\ filterOptions.truncateStackTraces
       /\ StrOr(entry, "type", "") = "console"
       /\ Has(entry, "text")
       /\ Len(entry.text) > StackTraceMinLength
       /\ Includes(entry.text, "\n    at ")
    THEN LET parts == SplitLines(entry.text)
             head  == IF Len(parts) < StackTraceHeadLines
                      THEN Len(parts) ELSE StackTraceHeadLines
             tail  == IF Len(parts) < StackTraceTailLines
                      THEN 1 ELSE Len(parts) - StackTraceTailLines + 1
         IN  [entry EXCEPT !.text =
                 JoinLines(SubSeq(parts, 1, head)
                           \o <<"    ... [truncated stack trace] ...">>
                           \o SubSeq(parts, tail, Len(parts)))]
    ELSE entry

\* truncateStackTrace that also flags the entry it shortened
truncateStackTraceMarkingEntry(entry, filterOptions) ==
    IF /\ filterOptions.truncateStackTraces
       /\ StrOr(entry, "type", "") = "console"
       /\ Has(entry, "text")
       /\ Len(entry.text) > StackTraceMinLength
       /\ Includes(entry.text, "\n    at ")
    THEN LET parts == SplitLines(entry.text)
         IN  IF Len(parts) > StackTraceMinLines
             THEN [f \in DOMAIN entry \cup {"truncated"} |->
                      IF f = "truncated" THEN TRUE
                      ELSE IF f = "text"
                      THEN JoinLines(SubSeq(parts, 1, StackTraceHeadLines)
                                     \o <<"    ... [truncated stack trace] ...">>
                                     \o SubSeq(parts, Len(parts) - StackTraceTailLines + 1,
                                               Len(parts)))
                      ELSE entry[f]]
             ELSE entry
    ELSE entry

\* the last branch of shouldRemoveEntry: the entry after "entry.text = [...]"
truncateStackTrace(entry, filterOptions) ==
    IF /\ filterOptions.truncateStackTraces
       /\ StrOr(entry, "type", "") = "console"
       /\ Has(entry, "text")
       /\ Len(entry.text) > StackTraceMinLength
       /\ Includes(entry.text, "\n    at ")
    THEN LET parts == SplitLines(entry.text)
         IN  IF Len(parts) > StackTraceMinLines
             THEN [entry EXCEPT !.text =
                      JoinLines(SubSeq(parts, 1, StackTraceHeadLines)
                                \o <<"    ... [truncated stack trace] ...">>
                                \o SubSeq(parts, Len(parts) - StackTraceTailLines + 1,
                                          Len(parts)))]
             ELSE entry
    ELSE entry

\* removalTypeOf without the test of messageType
removalTypeOfAnyConsole(entry, filterOptions) ==
    LET entryType == StrOr(entry, "type", "")
    IN  IF filterOptions.removeFrameSnapshots /\ entryType = "frame-snapshot"
        THEN "frame-snapshot"
        ELSE IF filterOptions.removeScreencastFrames /\ entryType = "screencast-frame"
        THEN "screencast-frame"
        ELSE IF /\ filterOptions.filterConsoleLogs
                /\ entryType = "console"
                /\ ~isImportantConsoleLog(entry)
        THEN "console-verbose"
        ELSE IF /\ filterOptions.removeUIElements
                /\ entryType \in {"button", "checkbox", "input", "text"}
        THEN "ui-elements"
        ELSE ""

\* the removalType shouldRemoveEntry passes to updateRemovalStats, "" when it
\* returns false
removalTypeOf(entry, filterOptions) ==
    LET entryType == StrOr(entry, "type", "")
    IN  IF filterOptions.removeFrameSnapshots /\ entryType = "frame-snapshot"
        THEN "frame-snapshot"
        ELSE IF filterOptions.removeScreencastFrames /\ entryType = "screencast-frame"
        THEN "screencast-frame"
        ELSE IF /\ filterOptions.filterConsoleLogs
                /\ entryType = "console"
                /\ StrOr(entry, "messageType", "") \in {"info", "log"}
                /\ ~isImportantConsoleLog(entry)
        THEN "console-verbose"
        ELSE IF /\ filterOptions.removeUIElements
                /\ entryType \in {"button", "checkbox", "input", "text"}
        THEN "ui-elements"
        ELSE ""

\* shouldRemoveEntry(entry, filterOptions): whether it returns true, the type it
\* reports to updateRemovalStats, and the entry as it leaves it
shouldRemoveEntry(entry, filterOptions) ==
    LET removalType == removalTypeOf(entry, filterOptions)
    IN  IF removalType # ""
        THEN [remove |-> TRUE, removalType |-> removalType, entry |-> entry]
        ELSE [remove |-> FALSE, removalType |-> "",
              entry |-> truncateStackTrace(entry, filterOptions)]

\* CountUnder with the count set to 1 instead of incremented
CountUnderOverwriting(map, key) ==
    [k \in DOMAIN map \cup {key} |-> IF k = key THEN 1 ELSE map[k]]

\* one more removal counted under a key of a removedByType / removedByCategory map
CountUnder(map, key) ==
    IF key \in DOMAIN map
    THEN [map EXCEPT ![key] = @ + 1]
    ELSE [k \in DOMAIN map \cup {key} |-> IF k = key THEN 1 ELSE map[k]]

\* PlaywrightTraceFilter.updateRemovalStats
updateRemovalStats(stats, removalType) ==
    [stats EXCEPT !.removedEntries = @ + 1,
                  !.removedByType = CountUnder(@, removalType)]

----------------------------------------------------------------------------
(* NetworkTraceFilter: options, statistics and whole-record removal *)

NetRemovalOptionNames ==
    {"removeAnalytics", "removeCloudAnalytics", "removeMapsApi", "removeBlobUrls",
     "removeLargeUploads", "removeStaticAssets", "removeThirdPartyWidgets"}

NetTransformOptionNames ==
    {"filterHeaders", "removeTimingDetails", "truncateResponseBodies",
     "simplifyVerboseFields", "removeHttpMetadata", "simplifyCookies",
     "removeContentHashes", "reducePrecision"}

NetOptionNames == NetRemovalOptionNames \cup NetTransformOptionNames

\* the table "presets" of filterNetworkTraceWithPreset
networkPresets ==
    [conservative |->
        [filterHeaders |-> TRUE, reducePrecision |-> FALSE, removeAnalytics |-> TRUE,
         removeBlobUrls |-> FALSE, removeCloudAnalytics |-> FALSE,
         removeContentHashes |-> FALSE, removeHttpMetadata |-> FALSE,
         removeLargeUploads |-> FALSE, removeMapsApi |-> FALSE,
         removeStaticAssets |-> FALSE, removeThirdPartyWidgets |-> FALSE,
         removeTimingDetails |-> FALSE, simplifyCookies |-> FALSE,
         simplifyVerboseFields |-> FALSE, truncateResponseBodies |-> FALSE],
     minimal |->
        [filterHeaders |-> TRUE, reducePrecision |-> TRUE, removeAnalytics |-> TRUE,
         removeBlobUrls |-> TRUE, removeCloudAnalytics |-> TRUE,
         removeContentHashes |-> TRUE, removeHttpMetadata |-> TRUE,
         removeLargeUploads |-> TRUE, removeMapsApi |-> TRUE,
         removeStaticAssets |-> TRUE, removeThirdPartyWidgets |-> TRUE,
         removeTimingDetails |-> TRUE, simplifyCookies |-> TRUE,
         simplifyVerboseFields |-> TRUE, truncateResponseBodies |-> TRUE],
     moderate |->
        [filterHeaders |-> TRUE, reducePrecision |-> FALSE, removeAnalytics |-> TRUE,
         removeBlobUrls |-> TRUE, removeCloudAnalytics |-> TRUE,
         removeContentHashes |-> FALSE, removeHttpMetadata |-> FALSE,
         removeLargeUploads |-> FALSE, removeMapsApi |-> FALSE,
         removeStaticAssets |-> TRUE, removeThirdPartyWidgets |-> TRUE,
         removeTimingDetails |-> FALSE, simplifyCookies |-> FALSE,
         simplifyVerboseFields |-> FALSE, truncateResponseBodies |-> TRUE]]

\* the stats object a NetworkTraceFilter is constructed with
\* (sizeBefore and sizeAfter are modelled apart, under SpecSizes)
EmptyNetStats ==
    [keptRequests |-> 0, removedByCategory |-> <<>>, removedRequests |-> 0,
     totalRequests |-> 0]

analyticsPatterns ==
    {"px.ads.linkedin.com", "snap.licdn.com", "linkedin.com/px", "facebook.com",
     "connect.facebook.net", "fb.com", "googletagmanager.com", "google-analytics.com",
     "analytics.google.com", "google.com/analytics", "doubleclick.net", "sentry.io",
     "browser.sentry-cdn.com", "sentry-cdn.com"}

cloudAnalyticsPatterns ==
    {"user-events-v3.s3-accelerate.amazonaws.com",
     "cognito-identity.us-west-2.amazonaws.com", "google.com/pagead",
     "googleadservices.com", "googlesyndication.com"}

mapsPatterns == {"maps.googleapis.com", "maps.google.com", "earth.google.com"}

staticCdnPatterns ==
    {"fonts.googleapis.com", "fonts.gstatic.com", "use.fontawesome.com",
     "cdnjs.cloudflare.com", "cdn.jsdelivr.net", "unpkg.com"}

staticExtensions ==
    {".css", ".js", ".woff", ".woff2", ".ttf", ".eot", ".png", ".jpg", ".jpeg",
     ".gif", ".svg", ".ico", ".mp4", ".webm", ".mp3", ".wav"}

widgetPatterns ==
    {"intercom.io", "js.intercomcdn.com", "widget.intercom.io",
     "snippet.meticulous.ai", "hotjar.com", "zendesk.com", "drift.com",
     "crisp.chat", "tawk.to"}

LargeUploadBytes == 100000

\* entry.snapshot?.request, the empty object when there is none
RequestOf(entry) ==
    IF Has(entry, "snapshot") /\ Has(entry.snapshot, "request")
    THEN entry.snapshot.request ELSE <<>>

\* shouldRemoveRequest with the large-upload rule after the static-asset rules
shouldRemoveRequestStaticFirst(entry, netOptions) ==
    LET url      == StrOr(RequestOf(entry), "url", "")
        urlLower == ToLowerCase(url)
        urlPath  == BeforeFirst(url, "?")
    IN  IF /\ netOptions.removeAnalytics
           /\ \E pattern \in analyticsPatterns : Includes(urlLower, pattern)
        THEN "analytics"
        ELSE IF /\ netOptions.removeCloudAnalytics
                /\ \E pattern \in cloudAnalyticsPatterns : Includes(urlLower, pattern)
        THEN "cloud-analytics"
        ELSE IF /\ netOptions.removeMapsApi
                /\ \E pattern \in mapsPatterns : Includes(urlLower, pattern)
        THEN "maps-api"
        ELSE IF netOptions.removeBlobUrls /\ StartsWith(url, "blob:")
        THEN "blob-url"
        ELSE IF /\ netOptions.removeStaticAssets
                /\ \E pattern \in staticCdnPatterns : Includes(urlLower, pattern)
        THEN "static-cdn"
        ELSE IF /\ netOptions.removeStaticAssets
                /\ \E ext \in staticExtensions : EndsWith(urlPath, ext)
        THEN "static-asset"
        ELSE IF /\ netOptions.removeLargeUploads
                /\ Has(RequestOf(entry), "bodySize")
                /\ RequestOf(entry).bodySize > LargeUploadBytes
        THEN "large-upload"
        ELSE IF /\ netOptions.removeThirdPartyWidgets
                /\ \E pattern \in widgetPatterns : Includes(urlLower, pattern)
        THEN "third-party-widget"
        ELSE ""

\* shouldRemoveRequest(entry, options): the category, "" for null (keep)
shouldRemoveRequest(entry, netOptions) ==
    LET url      == StrOr(RequestOf(entry), "url", "")
        urlLower == ToLowerCase(url)
        urlPath  == BeforeFirst(url, "?")
    IN  IF /\ netOptions.removeAnalytics
           /\ \E pattern \in analyticsPatterns : Includes(urlLower, pattern)
        THEN "analytics"
        ELSE IF /\ netOptions.removeCloudAnalytics
                /\ \E pattern \in cloudAnalyticsPatterns : Includes(urlLower, pattern)
        THEN "cloud-analytics"
        ELSE IF /\ netOptions.removeMapsApi
                /\ \E pattern \in mapsPatterns : Includes(urlLower, pattern)
        THEN "maps-api"
        ELSE IF netOptions.removeBlobUrls /\ StartsWith(url, "blob:")
        THEN "blob-url"
        ELSE IF /\ netOptions.removeLargeUploads
                /\ Has(RequestOf(entry), "bodySize")
                /\ RequestOf(entry).bodySize > LargeUploadBytes
        THEN "large-upload"
        ELSE IF /\ netOptions.removeStaticAssets
                /\ \E pattern \in staticCdnPatterns : Includes(urlLower, pattern)
        THEN "static-cdn"
        ELSE IF /\ netOptions.removeStaticAssets
                /\ \E ext \in staticExtensions : EndsWith(urlPath, ext)
        THEN "static-asset"
        ELSE IF /\ netOptions.removeThirdPartyWidgets
                /\ \E pattern \in widgetPatterns : Includes(urlLower, pattern)
        THEN "third-party-widget"
        ELSE ""

\* updateNetRemovalStats that counts the category only
updateNetRemovalStatsCategoryOnly(stats, category) ==
    [stats EXCEPT !.removedByCategory = CountUnder(@, category)]

\* NetworkTraceFilter.updateRemovalStats
updateNetRemovalStats(stats, category) ==
    [stats EXCEPT !.removedRequests = @ + 1,
                  !.removedByCategory = CountUnder(@, category)]

ErrorStatus == 400

SmallResponseBytes == 1000

\* truncateResponseBody(content, status)
truncateResponseBody(content, status) ==
    IF status >= ErrorStatus
    THEN content
    ELSE IF Has(content, "size") /\ content.size # 0 /\ content.size < SmallResponseBytes
    THEN content
    ELSE LET marker ==
                 [k \in {"_note", "_truncated"}
                        \cup (IF Has(content, "size") THEN {"_originalSize"} ELSE {}) |->
                    CASE k = "_note" -> "Response body truncated for successful request"
                      [] k = "_originalSize" -> content.size
                      [] k = "_truncated" -> TRUE]
         IN  [k \in DOMAIN content \cup DOMAIN marker |->
                 IF k \in DOMAIN marker THEN marker[k] ELSE content[k]]

----------------------------------------------------------------------------
(* NetworkTraceFilter: the field-level transformations of a kept record *)

\* delete obj.f for every f of fields
Without(obj, fields) == [k \in DOMAIN obj \ fields |-> obj[k]]

\* obj.field = value
With(obj, field, value) ==
    [k \in DOMAIN obj \cup {field} |-> IF k = field THEN value ELSE obj[k]]

essentialRequestHeaders ==
    {"authorization", "content-type", "accept", "x-csrf-token", "x-requested-with",
     "origin", "referer"}

essentialResponseHeaders ==
    {"content-type", "set-cookie", "location", "www-authenticate", "x-error",
     "x-error-message", "access-control-allow-origin"}

\* keepHeader without toLowerCase() on the header name
keepHeaderCaseSensitive(header, isRequest) ==
    LET name == header.name
        essentialHeaders ==
            IF isRequest THEN essentialRequestHeaders ELSE essentialResponseHeaders
    IN  IF \E essential \in essentialHeaders : Includes(name, essential)
        THEN TRUE
        ELSE IF Includes(name, "error") \/ Includes(name, "warning")
        THEN TRUE
        ELSE IF name = "cookie" \/ name = "set-cookie"
        THEN LET value == ToLowerCase(header.value)
             IN  \/ Includes(value, "auth")
                 \/ Includes(value, "session")
                 \/ Includes(value, "csrf")
        ELSE FALSE

\* the predicate of headers.filter in filterHeaders
keepHeader(header, isRequest) ==
    LET name == ToLowerCase(header.name)
        essentialHeaders ==
            IF isRequest THEN essentialRequestHeaders ELSE essentialResponseHeaders
    IN  IF \E essential \in essentialHeaders : Includes(name, essential)
        THEN TRUE
        ELSE IF Includes(name, "error") \/ Includes(name, "warning")
        THEN TRUE
        ELSE IF name = "cookie" \/ name = "set-cookie"
        THEN LET value == ToLowerCase(header.value)
             IN  \/ Includes(value, "auth")
                 \/ Includes(value, "session")
                 \/ Includes(value, "csrf")
        ELSE FALSE

filterHeaders(headers, isRequest) ==
    LET Keep(header) == keepHeader(header, isRequest)
    IN  SelectSeq(headers, Keep)

\* the headers step of filterEntry, on a snapshot that exists
filterSnapshotHeaders(snapshot) ==
    LET s1 == IF Has(snapshot, "request") /\ Has(snapshot.request, "headers")
              THEN [snapshot EXCEPT !.request.headers = filterHeaders(@, TRUE)]
              ELSE snapshot
    IN  IF Has(s1, "response") /\ Has(s1.response, "headers")
        THEN [s1 EXCEPT !.response.headers = filterHeaders(@, FALSE)]
        ELSE s1

\* typeof timings[key] === "number": every field of a timings object is a
\* number except the note cleanTimingData leaves
IsNumberField(key) == key # "_removed"

\* timings.f when it is a number, else 0
NumberOr0(timings, field) ==
    IF Has(timings, field) /\ IsNumberField(field) THEN timings[field] ELSE 0

cleanTimingData(snapshot) ==
    LET cleaned ==
            IF Has(snapshot, "timings")
            THEN [snapshot EXCEPT !.timings =
                     [_removed |-> "Detailed timing breakdown removed",
                      total |-> NumberOr0(@, "wait") + NumberOr0(@, "receive")]]
            ELSE snapshot
    IN  Without(cleaned, {"_frameref", "_monotonicTime", "cache", "_transferSize",
                          "_securityDetails", "serverIPAddress", "_serverPort"})

\* the response-body step of filterEntry, on a snapshot that exists
truncateSnapshotBody(snapshot) ==
    IF Has(snapshot, "response") /\ Has(snapshot.response, "content")
    THEN [snapshot EXCEPT !.response.content =
             truncateResponseBody(@, IF Has(snapshot.response, "status")
                                     THEN snapshot.response.status ELSE 0)]
    ELSE snapshot

keepVerboseHeader(header) ==
    \/ ToLowerCase(header.name) \notin {"accept-encoding", "accept-language"}
    \/ (header.value # "gzip, deflate, br, zstd" /\ header.value # "en-US")

simplifyVerboseFields(snapshot) ==
    LET s1 == IF Has(snapshot, "request")
              THEN LET r1 == IF /\ Has(snapshot.request, "queryString")
                                /\ Len(snapshot.request.queryString) = 0
                             THEN Without(snapshot.request, {"queryString"})
                             ELSE snapshot.request
                       r2 == IF Has(r1, "headers")
                             THEN [r1 EXCEPT !.headers = SelectSeq(@, keepVerboseHeader)]
                             ELSE r1
                   IN  [snapshot EXCEPT !.request = r2]
              ELSE snapshot
    IN  IF Has(s1, "response")
        THEN LET p1 == IF Has(s1.response, "redirectURL") /\ s1.response.redirectURL = ""
                       THEN Without(s1.response, {"redirectURL"})
                       ELSE s1.response
                 p2 == IF Has(p1, "statusText") /\ p1.statusText = "OK"
                       THEN Without(p1, {"statusText"})
                       ELSE p1
             IN  [s1 EXCEPT !.response = p2]
        ELSE s1

\* delete part.httpVersion when it is "HTTP/1.1"
WithoutDefaultHttpVersion(part) ==
    IF Has(part, "httpVersion") /\ part.httpVersion = "HTTP/1.1"
    THEN Without(part, {"httpVersion"})
    ELSE part

removeHttpMetadata(snapshot) ==
    LET s1 == IF Has(snapshot, "request")
              THEN [snapshot EXCEPT !.request =
                       Without(WithoutDefaultHttpVersion(@), {"headersSize", "bodySize"})]
              ELSE snapshot
    IN  IF Has(s1, "response")
        THEN [s1 EXCEPT !.response =
                 Without(WithoutDefaultHttpVersion(@),
                         {"headersSize", "bodySize", "_transferSize"})]
        ELSE s1

\* the function simplifyCookies maps over a cookies array
simplifyCookie(cookieObj) ==
    LET keep ==
            ({"name", "value"} \cap DOMAIN cookieObj)
            \cup (IF Has(cookieObj, "path") /\ cookieObj.path \notin {"", "/"}
                  THEN {"path"} ELSE {})
            \cup (IF Has(cookieObj, "httpOnly") /\ cookieObj.httpOnly
                  THEN {"httpOnly"} ELSE {})
            \cup (IF Has(cookieObj, "sameSite") /\ cookieObj.sameSite \notin {"", "Lax"}
                  THEN {"sameSite"} ELSE {})
    IN  [k \in keep |-> cookieObj[k]]

simplifyCookies(snapshot) ==
    LET s1 == IF Has(snapshot, "request") /\ Has(snapshot.request, "cookies")
              THEN [snapshot EXCEPT !.request.cookies =
                       [i \in 1..Len(@) |-> simplifyCookie(@[i])]]
              ELSE snapshot
    IN  IF Has(s1, "response") /\ Has(s1.response, "cookies")
        THEN [s1 EXCEPT !.response.cookies =
                 [i \in 1..Len(@) |-> simplifyCookie(@[i])]]
        ELSE s1

removeContentHashes(snapshot) ==
    LET s1 == IF Has(snapshot, "response") /\ Has(snapshot.response, "content")
              THEN [snapshot EXCEPT !.response.content =
                       Without(@, {"_sha1"}
                                  \cup (IF Has(@, "compression") /\ @.compression = 0
                                        THEN {"compression"} ELSE {}))]
              ELSE snapshot
    IN  IF Has(s1, "request") /\ Has(s1.request, "postData")
        THEN [s1 EXCEPT !.request.postData = Without(@, {"_sha1"})]
        ELSE s1

\* Math.round(x * 100) / 100 of a number held in thousandths
RoundTo2Places(x) == ((x + 5) \div 10) * 10

reducePrecision(snapshot) ==
    LET s1 == IF Has(snapshot, "time") /\ snapshot.time # 0
              THEN [snapshot EXCEPT !.time = RoundTo2Places(@)]
              ELSE snapshot
    IN  IF Has(s1, "timings")
        THEN [s1 EXCEPT !.timings =
                 [k \in DOMAIN @ |->
                     IF IsNumberField(k) THEN RoundTo2Places(@[k]) ELSE @[k]]]
        ELSE s1

\* the steps of filterEntry on a snapshot that exists, each under its toggle
stepFilterHeaders(snapshot, netOptions) ==
    IF netOptions.filterHeaders THEN filterSnapshotHeaders(snapshot) ELSE snapshot

stepTimingDetails(snapshot, netOptions) ==
    IF netOptions.removeTimingDetails THEN cleanTimingData(snapshot) ELSE snapshot

stepResponseBodies(snapshot, netOptions) ==
    IF netOptions.truncateResponseBodies THEN truncateSnapshotBody(snapshot) ELSE snapshot

stepVerboseFields(snapshot, netOptions) ==
    IF netOptions.simplifyVerboseFields THEN simplifyVerboseFields(snapshot) ELSE snapshot

stepHttpMetadata(snapshot, netOptions) ==
    IF netOptions.removeHttpMetadata THEN removeHttpMetadata(snapshot) ELSE snapshot

stepCookies(snapshot, netOptions) ==
    IF netOptions.simplifyCookies THEN simplifyCookies(snapshot) ELSE snapshot

stepContentHashes(snapshot, netOptions) ==
    IF netOptions.removeContentHashes THEN removeContentHashes(snapshot) ELSE snapshot

stepPrecision(snapshot, netOptions) ==
    IF netOptions.reducePrecision THEN reducePrecision(snapshot) ELSE snapshot

\* the chain of transformations of filterEntry, in its order
transformSnapshot(snapshot, netOptions) ==
    stepPrecision(
      stepContentHashes(
        stepCookies(
          stepHttpMetadata(
            stepVerboseFields(
              stepResponseBodies(
                stepTimingDetails(
                  stepFilterHeaders(snapshot, netOptions),
                  netOptions), netOptions), netOptions), netOptions), netOptions),
        netOptions), netOptions)

\* filterEntry(entry, options).  outcome "removed": it returned null after
\* updateRemovalStats(category); "kept": it returned the transformed copy;
\* "throws": it threw a TypeError, after keptRequests++ when counted is TRUE.
\* A parsed null throws in shouldRemoveRequest (entry.snapshot).  Without a
\* snapshot field, filteredEntry.snapshot.request and .response throw, while the
\* steps that spread the snapshot ({...undefined}) assign an empty object.
filterEntry(entry, netOptions) ==
    IF entry = JsonNull
    THEN [outcome |-> "throws", counted |-> FALSE, category |-> "", entry |-> entry]
    ELSE LET removalReason == shouldRemoveRequest(entry, netOptions)
         IN  IF removalReason # ""
             THEN [outcome |-> "removed", counted |-> FALSE,
                   category |-> removalReason, entry |-> entry]
             ELSE IF Has(entry, "snapshot")
             THEN [outcome |-> "kept", counted |-> TRUE, category |-> "",
                   entry |-> [entry EXCEPT !.snapshot = transformSnapshot(@, netOptions)]]
             ELSE IF \/ netOptions.filterHeaders
                     \/ (~netOptions.removeTimingDetails /\ netOptions.truncateResponseBodies)
             THEN [outcome |-> "throws", counted |-> TRUE, category |-> "", entry |-> entry]
             ELSE [outcome |-> "kept", counted |-> TRUE, category |-> "",
                   entry |-> IF \E o \in {"removeTimingDetails", "simplifyVerboseFields",
                                          "removeHttpMetadata", "simplifyCookies",
                                          "removeContentHashes", "reducePrecision"} :
                                    netOptions[o]
                             THEN With(entry, "snapshot", <<>>)
                             ELSE entry]

----------------------------------------------------------------------------
(* Input lines and JSON.parse *)

SnapshotJson == "{\"type\":\"frame-snapshot\"}"

HmrJson == "{\"type\":\"console\",\"messageType\":\"info\",\"text\":\"[HMR] connected\"}"

BeforeJson == "{\"type\":\"before\",\"callId\":\"call@1\"}"

NullJson == "null"

AnalyticsJson ==
    "{\"snapshot\":{\"request\":{\"url\":\"https://sentry.io/api\"},\"response\":{\"status\":200}}}"

LoginJson ==
    "{\"snapshot\":{\"request\":{\"url\":\"http://localhost:3000/api/login\"},\"response\":{\"status\":200,\"content\":{\"size\":50000,\"text\":\"{}\"}}}}"

FontsJson ==
    "{\"snapshot\":{\"request\":{\"url\":\"https://unpkg.com/a.css\"},\"response\":{\"status\":200}}}"

FlatJson == "{\"request\":{\"url\":\"http://localhost/me\"},\"response\":{\"status\":200}}"

CafeJson == "{\"type\":\"before\",\"title\":\"café\"}"

CafeNetJson ==
    "{\"snapshot\":{\"request\":{\"url\":\"http://localhost/café\"},\"response\":{\"status\":200}}}"

\* JSON.parse(text): the value of the texts above, a SyntaxError for any other
JSONparse(text) ==
    LET Value(v) == [ok |-> TRUE, value |-> v, error |-> ""]
    IN  CASE text = SnapshotJson -> Value([type |-> "frame-snapshot"])
          [] text = HmrJson ->
                Value([type |-> "console", messageType |-> "info",
                       text |-> "[HMR] connected"])
          [] text = BeforeJson -> Value([type |-> "before", callId |-> "call@1"])
          [] text = NullJson -> Value(JsonNull)
          [] text = AnalyticsJson ->
                Value([snapshot |-> [request |-> [url |-> "https://sentry.io/api"],
                                     response |-> [status |-> 200]]])
          [] text = LoginJson ->
                Value([snapshot |->
                          [request |-> [url |-> "http://localhost:3000/api/login"],
                           response |-> [status |-> 200,
                                         content |-> [size |-> 50000, text |-> "{}"]]]])
          [] text = FontsJson ->
                Value([snapshot |-> [request |-> [url |-> "https://unpkg.com/a.css"],
                                     response |-> [status |-> 200]]])
          [] text = CafeJson -> Value([type |-> "before", title |-> "café"])
          [] text = CafeNetJson ->
                Value([snapshot |-> [request |-> [url |-> "http://localhost/café"],
                                     response |-> [status |-> 200]]])
          [] text = FlatJson ->
                Value([request |-> [url |-> "http://localhost/me"],
                       response |-> [status |-> 200]])
          [] OTHER ->
                [ok |-> FALSE, value |-> JsonNull,
                 error |-> "SyntaxError: Unexpected token in JSON"]

TraceBadLine == "  {\"type\": oops "

NetBadLine == " {\"snapshot\": "

\* the lines a trace input is made of: an empty line, a line that is not JSON,
\* a record the presets remove and one they keep
TraceLines == {"", TraceBadLine, SnapshotJson, " " \o BeforeJson}

\* the lines a network input is made of, likewise
NetLines == {"", NetBadLine, AnalyticsJson, LoginJson \o " "}

\* content.split("\n") of every input of at most MaxLines lines
FilesOf(lineSet) == UNION {[1..n -> lineSet] : n \in 1..MaxLines}

\* the option bundles the pipelines are run with: a preset, and all toggles off
TraceRunOptions == {createFilterPresets.minimal, [o \in TraceOptionNames |-> FALSE]}

NetRunOptions == {networkPresets.minimal, [o \in NetOptionNames |-> FALSE]}

----------------------------------------------------------------------------
(* The two pipelines, one input line at a time *)

\* the record filterTraceFile pushes from its inner catch
traceMalformed(error, trimmedLine) ==
    [error |-> error, line |-> trimmedLine, type |-> "malformed"]

\* the record filterNetworkTrace pushes from its catch
netMalformed(error, line) ==
    [_error |-> error, _originalLine |-> line,
     snapshot |->
        [request |-> [headers |-> <<>>, method |-> "UNKNOWN", url |-> "MALFORMED"],
         response |-> [content |-> [mimeType |-> "", size |-> 0],
                       headers |-> <<>>, status |-> 0]],
     type |-> "malformed"]

NullTypeError == "TypeError: Cannot read properties of null"

\* traceLineStep without the inner try/catch: a line that does not parse throws
traceLineStepNoCatch(stats, out, line, filterOptions) ==
    LET trimmedLine == Trim(line)
        parsed      == JSONparse(trimmedLine)
        counted     == [stats EXCEPT !.totalEntries = @ + 1]
    IN  IF trimmedLine = ""
        THEN [stats |-> stats, out |-> out, thrown |-> ""]
        ELSE IF ~parsed.ok
        THEN [stats |-> stats, out |-> out, thrown |-> parsed.error]
        ELSE IF parsed.value = JsonNull
        THEN [stats |-> counted, out |-> out, thrown |-> NullTypeError]
        ELSE LET r == shouldRemoveEntry(parsed.value, filterOptions)
             IN  IF r.remove
                 THEN [stats |-> updateRemovalStats(counted, r.removalType),
                       out |-> out, thrown |-> ""]
                 ELSE [stats |-> counted, out |-> Append(out, r.entry), thrown |-> ""]

\* traceEntryStep with unshift in place of push
traceEntryStepUnshift(stats, out, entry, filterOptions) ==
    LET counted == [stats EXCEPT !.totalEntries = @ + 1]
        r       == shouldRemoveEntry(entry, filterOptions)
    IN  IF r.remove
        THEN [stats |-> updateRemovalStats(counted, r.removalType),
              out |-> out, thrown |-> ""]
        ELSE [stats |-> counted, out |-> <<r.entry>> \o out, thrown |-> ""]

\* the body of the inner try of filterTraceFile for a line that parsed to the
\* object entry: counted, then removed or pushed
traceEntryStep(stats, out, entry, filterOptions) ==
    LET counted == [stats EXCEPT !.totalEntries = @ + 1]
        r       == shouldRemoveEntry(entry, filterOptions)
    IN  IF r.remove
        THEN [stats |-> updateRemovalStats(counted, r.removalType),
              out |-> out, thrown |-> ""]
        ELSE [stats |-> counted, out |-> Append(out, r.entry), thrown |-> ""]

\* the body of the for loop of filterTraceFile on one line: the statistics and
\* filteredEntries after it, and the error that escapes the inner try ("" when
\* none does: the inner catch takes every error)
traceLineStep(stats, out, line, filterOptions) ==
    LET trimmedLine == Trim(line)
        parsed      == JSONparse(trimmedLine)
        counted     == [stats EXCEPT !.totalEntries = @ + 1]
    IN  IF trimmedLine = ""
        THEN [stats |-> stats, out |-> out, thrown |-> ""]
        ELSE IF ~parsed.ok
        THEN [stats |-> stats,
              out |-> Append(out, traceMalformed(parsed.error, trimmedLine)),
              thrown |-> ""]
        ELSE IF parsed.value = JsonNull
        THEN [stats |-> counted,
              out |-> Append(out, traceMalformed(NullTypeError, trimmedLine)),
              thrown |-> ""]
        ELSE traceEntryStep(stats, out, parsed.value, filterOptions)

\* inputContent.trim().split("\n")
TrimSplit(fileLines) == SplitLines(Trim(JoinLines(fileLines)))

\* the body of the try of filterNetworkTrace for a line that parsed to entry
netEntryStep(stats, out, entry, line, netOptions) ==
    LET kept == [stats EXCEPT !.keptRequests = @ + 1]
        r    == filterEntry(entry, netOptions)
    IN  CASE r.outcome = "removed" ->
               [stats |-> updateNetRemovalStats(stats, r.category),
                out |-> out, thrown |-> ""]
          [] r.outcome = "kept" ->
               [stats |-> kept, out |-> Append(out, r.entry), thrown |-> ""]
          [] r.outcome = "throws" ->
               [stats |-> IF r.counted THEN kept ELSE stats,
                out |-> Append(out, netMalformed(NullTypeError, line)),
                thrown |-> ""]

\* the body of the for loop of filterNetworkTrace on one line
netLineStep(stats, out, rawLine, netOptions) ==
    LET line   == Trim(rawLine)
        parsed == JSONparse(line)
    IN  IF line = ""
        THEN [stats |-> stats, out |-> out, thrown |-> ""]
        ELSE IF ~parsed.ok
        THEN [stats |-> stats, out |-> Append(out, netMalformed(parsed.error, line)),
              thrown |-> ""]
        ELSE netEntryStep(stats, out, parsed.value, line, netOptions)

NoProbe == [kind |-> "none"]

NoCall == [pipeline |-> "none"]

\* what a completed call leaves: its input, its options, the file it wrote
\* (the records and whether a newline ends it), the statistics it returned,
\* the number of lines its loop took, and the error it threw ("" when none)
CallRecord(pipeline, input, opts, records, newline, returned, visited, error) ==
    [pipeline |-> pipeline, input |-> input, options |-> opts,
     output |-> [records |-> records, trailingNewline |-> newline],
     returned |-> returned, visited |-> visited, error |-> error]

\* filterTraceFile up to the loop: the statistics are reset, the input is read
TraceStart(file, filterOptions) ==
    /\ pc = "idle"
    /\ traceCalls + netCalls < MaxCalls
    /\ pc' = "trace"
    /\ traceCalls' = traceCalls + 1
    /\ traceStats' = EmptyTraceStats
    /\ lines' = file
    /\ idx' = 1
    /\ options' = filterOptions
    /\ filteredEntries' = <<>>
    /\ UNCHANGED <<netStats, netCalls, lastCall, probe>>

\* one iteration of the loop of filterTraceFile
TraceLine ==
    /\ pc = "trace"
    /\ idx <= Len(lines)
    /\ LET step == traceLineStep(traceStats, filteredEntries, lines[idx], options)
       IN  /\ traceStats' = step.stats
           /\ filteredEntries' = step.out
           /\ IF step.thrown = ""
              THEN /\ idx' = idx + 1
                   /\ UNCHANGED <<pc, lines, options, lastCall>>
              ELSE /\ pc' = "returned"
                   /\ lastCall' = CallRecord("trace", lines, options, <<>>, FALSE,
                                             EmptyTraceStats, idx, step.thrown)
                   /\ idx' = 0
                   /\ lines' = <<>>
                   /\ options' = <<>>
    /\ UNCHANGED <<netStats, traceCalls, netCalls, probe>>

\* filterTraceFile after the loop: the output is written, the statistics returned
TraceFinish ==
    /\ pc = "trace"
    /\ idx > Len(lines)
    /\ pc' = "returned"
    /\ lastCall' = CallRecord("trace", lines, options, filteredEntries, TRUE,
                              traceStats, idx - 1, "")
    /\ idx' = 0
    /\ lines' = <<>>
    /\ options' = <<>>
    /\ filteredEntries' = <<>>
    /\ UNCHANGED <<traceStats, netStats, traceCalls, netCalls, probe>>

\* filterNetworkTrace up to the loop: the input is read, totalRequests is set
NetStart(file, netOptions) ==
    /\ pc = "idle"
    /\ traceCalls + netCalls < MaxCalls
    /\ pc' = "network"
    /\ netCalls' = netCalls + 1
    /\ lines' = TrimSplit(file)
    /\ netStats' = [netStats EXCEPT !.totalRequests = Len(lines')]
    /\ idx' = 1
    /\ options' = netOptions
    /\ filteredEntries' = <<>>
    /\ UNCHANGED <<traceStats, traceCalls, lastCall, probe>>

\* one iteration of the loop of filterNetworkTrace
NetLine ==
    /\ pc = "network"
    /\ idx <= Len(lines)
    /\ LET step == netLineStep(netStats, filteredEntries, lines[idx], options)
       IN  /\ netStats' = step.stats
           /\ filteredEntries' = step.out
           /\ IF step.thrown = ""
              THEN /\ idx' = idx + 1
                   /\ UNCHANGED <<pc, lines, options, lastCall>>
              ELSE /\ pc' = "returned"
                   /\ lastCall' = CallRecord("network", lines, options, <<>>, FALSE,
                                             EmptyNetStats, idx, step.thrown)
                   /\ idx' = 0
                   /\ lines' = <<>>
                   /\ options' = <<>>
    /\ UNCHANGED <<traceStats, traceCalls, netCalls, probe>>

\* filterNetworkTrace after the loop: the output is written, this.stats returned
NetFinish ==
    /\ pc = "network"
    /\ idx > Len(lines)
    /\ pc' = "returned"
    /\ lastCall' = CallRecord("network", lines, options, filteredEntries, FALSE,
                              netStats, idx - 1, "")
    /\ idx' = 0
    /\ lines' = <<>>
    /\ options' = <<>>
    /\ filteredEntries' = <<>>
    /\ UNCHANGED <<traceStats, netStats, traceCalls, netCalls, probe>>

\* the caller takes the result of the call; the filter instances stay
Resume ==
    /\ pc = "returned"
    /\ pc' = "idle"
    /\ lastCall' = NoCall
    /\ UNCHANGED <<traceStats, netStats, lines, idx, options, filteredEntries,
                   traceCalls, netCalls, probe>>

\* two filter instances as constructed, no call made yet
InitFilters ==
    /\ pc = "idle"
    /\ traceStats = EmptyTraceStats
    /\ netStats = EmptyNetStats
    /\ lines = <<>>
    /\ idx = 0
    /\ options = <<>>
    /\ filteredEntries = <<>>
    /\ traceCalls = 0
    /\ netCalls = 0
    /\ lastCall = NoCall

Init ==
    /\ InitFilters
    /\ probe = NoProbe

Next ==
    \/ \E file \in FilesOf(TraceLines), filterOptions \in TraceRunOptions :
          TraceStart(file, filterOptions)
    \/ TraceLine
    \/ TraceFinish
    \/ \E file \in FilesOf(NetLines), netOptions \in NetRunOptions :
          NetStart(file, netOptions)
    \/ NetLine
    \/ NetFinish
    \/ Resume

Spec == Init /\ [][Next]_vars

----------------------------------------------------------------------------
(* filterTraceFile and filterNetworkTrace on a fresh instance, as one function *)

RECURSIVE traceLoop(_, _, _, _)
traceLoop(stats, out, rest, filterOptions) ==
    IF rest = <<>>
    THEN [stats |-> stats, out |-> out]
    ELSE traceLoop(traceLineStep(stats, out, Head(rest), filterOptions).stats,
                   traceLineStep(stats, out, Head(rest), filterOptions).out,
                   Tail(rest), filterOptions)

RECURSIVE netLoop(_, _, _, _)
netLoop(stats, out, rest, netOptions) ==
    IF rest = <<>>
    THEN [stats |-> stats, out |-> out]
    ELSE netLoop(netLineStep(stats, out, Head(rest), netOptions).stats,
                 netLineStep(stats, out, Head(rest), netOptions).out,
                 Tail(rest), netOptions)

\* the statistics new PlaywrightTraceFilter().filterTraceFile returns
FreshTraceStats(input, filterOptions) ==
    traceLoop(EmptyTraceStats, <<>>, input, filterOptions).stats

\* the statistics new NetworkTraceFilter().filterNetworkTrace returns
FreshNetStats(input, netOptions) ==
    netLoop([EmptyNetStats EXCEPT !.totalRequests = Len(input)], <<>>, input,
            netOptions).stats

----------------------------------------------------------------------------
(* The removal rules and filterEntry, applied to one record *)

ProbeUnchanged ==
    UNCHANGED <<pc, traceStats, netStats, lines, idx, options, filteredEntries,
                traceCalls, netCalls, lastCall>>

RECURSIVE Repeat(_, _)
Repeat(s, n) ==
    IF n = 0 THEN ""
    ELSE IF n % 2 = 1 THEN s \o Repeat(s, n - 1)
    ELSE Repeat(s, n \div 2) \o Repeat(s, n \div 2)

\* one stack-frame line of a console text, with its leading line break
StackFrame == "\n    at render (" \o Repeat("x", 240) \o ")"

\* a console text of more than 5000 characters and 22 lines: a first line, ten
\* stack frames, the line middle, ten stack frames
LongStackText(first, middle) ==
    first \o Repeat(StackFrame, 10) \o "\n" \o middle \o Repeat(StackFrame, 10)

\* a console text of more than 5000 characters and 5 lines, each a stack frame
WideStackText ==
    "Error: boom" \o Repeat("\n    at render (" \o Repeat("x", 1300) \o ")", 4)

\* a console text of more than 5000 characters and 22 lines, none a stack frame
LongPlainText == "Error: boom" \o Repeat("\nrendering " \o Repeat("x", 240), 21)

\* a console text of 22 lines, 21 of them stack frames, under 5000 characters
ShortStackText == "Error: boom" \o Repeat("\n    at render (app.js:1:1)", 21)

\* console records with the texts above
StackTraceEntries ==
    {[type |-> "console", messageType |-> m, text |-> x] :
        m \in {"info", "error"},
        x \in {LongStackText("Error: boom", "caused by: Uncaught thing"),
               WideStackText, LongPlainText, ShortStackText}}

ConsoleTexts == {"[HMR] connected", "Failed to load resource: 403", "TEST done", ""}

\* parsed trace records: every type the rules name, some they do not name, a
\* record without a type, and console records of every messageType
TraceProbeEntries ==
    {[type |-> t] :
        t \in {"frame-snapshot", "screencast-frame", "button", "checkbox", "input",
               "text", "before", "after", "log", "event"}}
    \cup {[callId |-> "call@1"]}
    \cup {[type |-> "console", text |-> x] : x \in ConsoleTexts}
    \cup {[type |-> "console", messageType |-> m, text |-> x] :
             m \in {"info", "log", "error", "warning"}, x \in ConsoleTexts}
    \cup StackTraceEntries

\* shouldRemoveEntry on a fresh filter: what it returns, the entry it leaves,
\* and the statistics after it
ProbeTraceRule ==
    /\ probe.kind = "trace"
    /\ ~probe.done
    /\ LET r == shouldRemoveEntry(probe.entry, probe.options)
       IN  probe' = [probe EXCEPT
                        !.done = TRUE,
                        !.remove = r.remove,
                        !.removalType = r.removalType,
                        !.entryOut = r.entry,
                        !.stats = IF r.remove
                                  THEN updateRemovalStats(EmptyTraceStats, r.removalType)
                                  ELSE EmptyTraceStats]
    /\ ProbeUnchanged

InitTraceRules ==
    /\ InitFilters
    /\ \E e \in TraceProbeEntries, o \in AllTraceOptions :
          probe = [kind |-> "trace", entry |-> e, options |-> o, done |-> FALSE,
                   remove |-> FALSE, removalType |-> "", entryOut |-> e,
                   stats |-> EmptyTraceStats]

SpecTraceRules == InitTraceRules /\ [][ProbeTraceRule]_vars

ProbeUrls ==
    {"https://fonts.googleapis.com/foo.css",
     "http://localhost:3000/api/login",
     "https://www.google-analytics.com/collect",
     "https://www.google.com/pagead/1p",
     "https://maps.googleapis.com/maps/api/js",
     "blob:http://localhost/abc",
     "BLOB:http://localhost/abc",
     "http://localhost/app.js?v=1",
     "http://localhost/logo.png",
     "http://localhost/logo.PNG",
     "https://widget.intercom.io/w",
     "https://Widget.Intercom.io/w",
     "https://cdn.jsdelivr.net/npm/hotjar.com.js",
     "https://sentry.io/maps.google.com/googlesyndication.com"}

ProbeBodySizes == {100000, 100001}

\* parsed network records: every URL above without and with a request bodySize,
\* and a record whose request has no url
NetProbeEntries ==
    {[snapshot |-> [request |-> [url |-> u], response |-> [status |-> 200]]] :
        u \in ProbeUrls}
    \cup {[snapshot |-> [request |-> [url |-> u, bodySize |-> b],
                         response |-> [status |-> 200]]] :
             u \in ProbeUrls, b \in ProbeBodySizes}
    \cup {[snapshot |-> [request |-> [method |-> "GET"], response |-> [status |-> 200]]]}

\* every combination of the seven whole-record removal toggles, the
\* transformation toggles off
NetRemovalOptions ==
    {[o \in NetOptionNames |-> o \in on] : on \in SUBSET NetRemovalOptionNames}
    \cup {networkPresets.minimal}

\* shouldRemoveRequest and updateRemovalStats as filterEntry calls them on a
\* fresh filter
ProbeNetRule ==
    /\ probe.kind = "net"
    /\ ~probe.done
    /\ LET reason == shouldRemoveRequest(probe.entry, probe.options)
       IN  probe' = [probe EXCEPT
                        !.done = TRUE,
                        !.category = reason,
                        !.stats = IF reason # ""
                                  THEN updateNetRemovalStats(EmptyNetStats, reason)
                                  ELSE EmptyNetStats]
    /\ ProbeUnchanged

InitNetRules ==
    /\ InitFilters
    /\ \E e \in NetProbeEntries, o \in NetRemovalOptions :
          probe = [kind |-> "net", entry |-> e, options |-> o, done |-> FALSE,
                   category |-> "", stats |-> EmptyNetStats]

SpecNetRules == InitNetRules /\ [][ProbeNetRule]_vars

----------------------------------------------------------------------------
(* Claims about the pipelines, checked under Spec *)

\* the indexes of the input lines that are not blank
NonBlank(input) == {i \in DOMAIN input : Trim(input[i]) # ""}

\* the indexes of the input lines that are not blank and not valid JSON
NotJson(input) == {i \in NonBlank(input) : ~JSONparse(Trim(input[i])).ok}

\* record r is the "malformed" record of the line whose trimmed text is t
IsMalformedFor(r, pipeline, t) ==
    /\ Has(r, "type")
    /\ r.type = "malformed"
    /\ IF pipeline = "trace"
       THEN Has(r, "line") /\ r.line = t /\ Has(r, "error")
            /\ r.error = JSONparse(t).error
       ELSE Has(r, "_originalLine") /\ r._originalLine = t /\ Has(r, "_error")
            /\ r._error = JSONparse(t).error

SumOver(map, keys) ==
    LET RECURSIVE Sum(_)
        Sum(ks) == IF ks = {} THEN 0
                   ELSE LET k == CHOOSE x \in ks : TRUE
                        IN  map[k] + Sum(ks \ {k})
    IN  Sum(keys)

\* the sum of the values of a removedByType / removedByCategory map
SumValues(map) == SumOver(map, DOMAIN map)

\* C1: in both pipelines a line that is not valid JSON does not abort the call:
\* the call returns without error, its loop has taken every line, and for each
\* such line the output holds as many "malformed" records carrying its trimmed
\* text and the parse error as the input holds lines with that text (one each).
C1_MalformedLineRecovered ==
    pc = "returned" =>
        \A i \in NotJson(lastCall.input) :
            /\ lastCall.error = ""
            /\ lastCall.visited = Len(lastCall.input)
            /\ Cardinality({j \in DOMAIN lastCall.output.records :
                               IsMalformedFor(lastCall.output.records[j],
                                              lastCall.pipeline,
                                              Trim(lastCall.input[i]))})
               = Cardinality({k \in DOMAIN lastCall.input :
                                 Trim(lastCall.input[k]) = Trim(lastCall.input[i])})

\* a network call has returned whose first line was not JSON and whose second
\* line was kept
C1_Witness ==
    /\ pc = "returned"
    /\ lastCall.pipeline = "network"
    /\ Len(lastCall.input) = 2
    /\ 1 \in NotJson(lastCall.input)
    /\ 2 \notin NotJson(lastCall.input)
    /\ Len(lastCall.output.records) = 2
    /\ lastCall.returned.keptRequests >= 1

\* C2: after filterTraceFile returns, totalEntries counts every non-blank input
\* line, malformed ones included, and totalEntries - removedEntries is the
\* number of records written.
C2_TotalCountsEveryLine ==
    (pc = "returned" /\ lastCall.pipeline = "trace") =>
        /\ lastCall.returned.totalEntries = Cardinality(NonBlank(lastCall.input))
        /\ lastCall.returned.totalEntries - lastCall.returned.removedEntries
           = Len(lastCall.output.records)

\* C3: after filterNetworkTrace returns, totalRequests = keptRequests +
\* removedRequests.
C3_TotalIsKeptPlusRemoved ==
    (pc = "returned" /\ lastCall.pipeline = "network") =>
        lastCall.returned.totalRequests
        = lastCall.returned.keptRequests + lastCall.returned.removedRequests

\* C4: in every state, in both filters, the values of the per-category map
\* sum to the removed counter.
C4_CategorySumIsRemoved ==
    /\ SumValues(traceStats.removedByType) = traceStats.removedEntries
    /\ SumValues(netStats.removedByCategory) = netStats.removedRequests

\* in the middle of a network run that has removed a record, on filters one
\* of which has already completed a call that removed a record
C4_Witness ==
    /\ pc = "network"
    /\ idx <= Len(lines)
    /\ netStats.removedRequests >= 1
    /\ traceStats.removedEntries >= 1

\* C5: every call returns the statistics a fresh instance returns for its
\* input and options.
C5_StatsResetEveryCall ==
    pc = "returned" =>
        lastCall.returned =
            IF lastCall.pipeline = "trace"
            THEN FreshTraceStats(lastCall.input, lastCall.options)
            ELSE FreshNetStats(lastCall.input, lastCall.options)

----------------------------------------------------------------------------
(* filterEntry applied to one record *)

ProbeStatuses == {200, 399, 400, 500}

ProbeContentSizes == {0, 999, 1000, 50000}

ProbeContents ==
    {[text |-> "body"]} \cup {[size |-> z, text |-> "body"] : z \in ProbeContentSizes}

ProbeResponses ==
    {<<>>}
    \cup {[status |-> st] : st \in ProbeStatuses}
    \cup {[content |-> c] : c \in ProbeContents}
    \cup {[status |-> st, content |-> c] : st \in ProbeStatuses, c \in ProbeContents}

\* parsed network records that no removal rule matches, with every response above
NetEntryProbes ==
    {[snapshot |-> [request |-> [url |-> "http://localhost:3000/api/login"],
                    response |-> r]] : r \in ProbeResponses}

Header(name, value) == [name |-> name, value |-> value]

ProbeRequestHeaders ==
    {<<>>,
     <<Header("User-Agent", "Mozilla/5.0"),
       Header("Accept-Encoding", "gzip, deflate, br, zstd"),
       Header("Cookie", "SESSIONID=abc")>>,
     <<Header("Cookie", "theme=dark"),
       Header("Authorization", "Bearer t"),
       Header("Accept-Language", "fr")>>,
     <<Header("X-Warning-Id", "7"),
       Header("Accept-Language", "en-US"),
       Header("Set-Cookie", "csrf=1")>>}

ProbeResponseHeaders ==
    {<<>>,
     <<Header("Server", "nginx"),
       Header("Set-Cookie", "theme=dark"),
       Header("Content-Type", "text/html")>>,
     <<Header("Cookie", "theme=dark"),
       Header("X-Error", "boom"),
       Header("Cookie", "Auth=1")>>}

\* parsed network records with request and response headers
NetHeaderProbes ==
    {[snapshot |-> [request |-> [url |-> "http://localhost:3000/api/login",
                                 headers |-> q],
                    response |-> [status |-> 200, headers |-> r]]] :
        q \in ProbeRequestHeaders, r \in ProbeResponseHeaders}

\* parsed network records with a time and timings, in thousandths
NetTimingProbes ==
    {[snapshot |-> [request |-> [url |-> "http://localhost:3000/api/login"],
                    response |-> [status |-> 200],
                    time |-> t,
                    timings |-> [wait |-> w, receive |-> w, dns |-> 1234]]] :
        t \in {1239}, w \in {4, 120}}

\* every combination of the transformation toggles with the removal toggles
\* off, and the presets
NetTransformOptions ==
    {[o \in NetOptionNames |-> o \in on] : on \in SUBSET NetTransformOptionNames}
    \cup {networkPresets.conservative, networkPresets.moderate, networkPresets.minimal}

\* filterEntry on a fresh filter: its outcome, the entry it returns and the
\* statistics after it
ProbeFilterEntry ==
    /\ probe.kind = "entry"
    /\ ~probe.done
    /\ LET r == filterEntry(probe.entry, probe.options)
       IN  probe' = [probe EXCEPT
                        !.done = TRUE,
                        !.outcome = r.outcome,
                        !.entryOut = r.entry,
                        !.stats =
                           IF r.outcome = "removed"
                           THEN updateNetRemovalStats(EmptyNetStats, r.category)
                           ELSE IF r.counted
                           THEN [EmptyNetStats EXCEPT !.keptRequests = @ + 1]
                           ELSE EmptyNetStats]
    /\ ProbeUnchanged

InitNetEntry ==
    /\ InitFilters
    /\ \E e \in NetEntryProbes \cup NetHeaderProbes \cup NetTimingProbes,
          o \in NetTransformOptions :
          probe = [kind |-> "entry", entry |-> e, options |-> o, done |-> FALSE,
                   outcome |-> "", entryOut |-> e, stats |-> EmptyNetStats]

SpecNetEntry == InitNetEntry /\ [][ProbeFilterEntry]_vars

----------------------------------------------------------------------------
(* Claims about the trace removal rules, checked under SpecTraceRules *)

C6_Keywords ==
    {"error", "warning", "failed", "exception", "uncaught", "test", "assertion",
     "timeout", "network", "xhr", "fetch"}

\* the ordered rule list of the claim: toggle, category, and whether e matches
C6_Rules(e) ==
    <<[toggle |-> "removeFrameSnapshots", category |-> "frame-snapshot",
       matches |-> StrOr(e, "type", "") = "frame-snapshot"],
      [toggle |-> "removeScreencastFrames", category |-> "screencast-frame",
       matches |-> StrOr(e, "type", "") = "screencast-frame"],
      [toggle |-> "filterConsoleLogs", category |-> "console-verbose",
       matches |-> /\ StrOr(e, "type", "") = "console"
                   /\ StrOr(e, "messageType", "") \in {"info", "log"}
                   /\ \A kw \in C6_Keywords :
                         ~Includes(ToLowerCase(StrOr(e, "text", "")), kw)],
      [toggle |-> "removeUIElements", category |-> "ui-elements",
       matches |-> StrOr(e, "type", "") \in {"button", "checkbox", "input", "text"}]>>

\* the indexes of the rules of a list that are enabled and match
EnabledMatches(rules, opts) ==
    {i \in DOMAIN rules : opts[rules[i].toggle] /\ rules[i].matches}

First(indexes) == CHOOSE i \in indexes : \A j \in indexes : i <= j

C6_HmrEntry == [type |-> "console", messageType |-> "info", text |-> "[HMR] connected"]

C6_FailedEntry ==
    [type |-> "console", messageType |-> "info", text |-> "Failed to load resource: 403"]

\* C6: a parsed trace record is removed iff it matches an enabled rule of the
\* ordered list, the removal is counted under exactly one category, that of
\* the first matching rule; under minimal the "[HMR] connected" info record is
\* removed as console-verbose and the "Failed to load resource: 403" one is kept.
C6_RemovedIffFirstRule ==
    (probe.kind = "trace" /\ probe.done) =>
        LET m == EnabledMatches(C6_Rules(probe.entry), probe.options)
        IN  /\ probe.remove <=> (m # {})
            /\ m # {} =>
                  /\ probe.removalType = C6_Rules(probe.entry)[First(m)].category
                  /\ DOMAIN probe.stats.removedByType = {probe.removalType}
                  /\ probe.stats.removedByType[probe.removalType] = 1
                  /\ probe.stats.removedEntries = 1
            /\ m = {} => probe.stats = EmptyTraceStats
            /\ (probe.options = createFilterPresets.minimal /\ probe.entry = C6_HmrEntry)
                  => (probe.remove /\ probe.removalType = "console-verbose")
            /\ (probe.options = createFilterPresets.minimal /\ probe.entry = C6_FailedEntry)
                  => ~probe.remove

\* under minimal the rules have been applied to the "Failed to load" record
C6_Witness ==
    /\ probe.kind = "trace"
    /\ probe.done
    /\ probe.options = createFilterPresets.minimal
    /\ probe.entry = C6_FailedEntry
    /\ ~probe.remove

C7_RuleTypes ==
    {"frame-snapshot", "screencast-frame", "console", "button", "checkbox", "input",
     "text"}

\* C7: under every option combination a console record whose messageType is
\* not info or log, and a record whose type is none of the seven the rules
\* name, is not removed and not counted as removed.
C7_ErrorsAndBoundariesKept ==
    (/\ probe.kind = "trace"
     /\ probe.done
     /\ \/ /\ StrOr(probe.entry, "type", "") = "console"
           /\ StrOr(probe.entry, "messageType", "") \notin {"info", "log"}
        \/ StrOr(probe.entry, "type", "") \notin C7_RuleTypes)
    => /\ ~probe.remove
       /\ probe.stats.removedEntries = 0

\* under minimal the rules have been applied to a console error whose text
\* holds no importance keyword
C7_Witness ==
    /\ probe.kind = "trace"
    /\ probe.done
    /\ probe.options = createFilterPresets.minimal
    /\ probe.entry = [type |-> "console", messageType |-> "error",
                      text |-> "[HMR] connected"]
    /\ ~probe.remove

----------------------------------------------------------------------------
(* Claims about the network removal rules, checked under SpecNetRules *)

\* the ordered rule list of the claim over a request URL and body size (-1
\* when the request has none); the scheme and the extension are compared as
\* written, the domain lists against the lowercased URL
C8_Rules(url, bodySize) ==
    LET lower == ToLowerCase(url)
        path  == BeforeFirst(url, "?")
        anyOf(patterns) == \E p \in patterns : Includes(lower, p)
    IN  <<[toggle |-> "removeAnalytics", category |-> "analytics",
           matches |-> anyOf(analyticsPatterns)],
          [toggle |-> "removeCloudAnalytics", category |-> "cloud-analytics",
           matches |-> anyOf(cloudAnalyticsPatterns)],
          [toggle |-> "removeMapsApi", category |-> "maps-api",
           matches |-> anyOf(mapsPatterns)],
          [toggle |-> "removeBlobUrls", category |-> "blob-url",
           matches |-> StartsWith(url, "blob:")],
          [toggle |-> "removeLargeUploads", category |-> "large-upload",
           matches |-> bodySize > 100000],
          [toggle |-> "removeStaticAssets", category |-> "static-cdn",
           matches |-> anyOf(staticCdnPatterns)],
          [toggle |-> "removeStaticAssets", category |-> "static-asset",
           matches |-> \E ext \in staticExtensions : EndsWith(path, ext)],
          [toggle |-> "removeThirdPartyWidgets", category |-> "third-party-widget",
           matches |-> anyOf(widgetPatterns)]>>

ProbeUrl == StrOr(RequestOf(probe.entry), "url", "")

ProbeBodySize ==
    IF Has(RequestOf(probe.entry), "bodySize") THEN RequestOf(probe.entry).bodySize ELSE -1

\* C8: a network record is removed iff it matches an enabled removal rule, and
\* the one category counted is that of the first matching rule in the order
\* analytics, cloud-analytics, maps-api, blob-url, large-upload, static-cdn /
\* static-asset, third-party-widget; under minimal the fonts.googleapis.com
\* stylesheet is removed as static-cdn and the localhost login request is kept.
C8_FirstRuleDecidesCategory ==
    (probe.kind = "net" /\ probe.done) =>
        LET rules == C8_Rules(ProbeUrl, ProbeBodySize)
            m     == EnabledMatches(rules, probe.options)
        IN  /\ (probe.category # "") <=> (m # {})
            /\ m # {} =>
                  /\ probe.category = rules[First(m)].category
                  /\ DOMAIN probe.stats.removedByCategory = {probe.category}
                  /\ probe.stats.removedByCategory[probe.category] = 1
                  /\ probe.stats.removedRequests = 1
            /\ m = {} => probe.stats = EmptyNetStats
            /\ (/\ probe.options = networkPresets.minimal
                /\ ProbeUrl = "https://fonts.googleapis.com/foo.css"
                /\ ProbeBodySize <= 100000) => probe.category = "static-cdn"
            /\ (/\ probe.options = networkPresets.minimal
                /\ ProbeUrl = "http://localhost:3000/api/login"
                /\ ProbeBodySize <= 100000) => probe.category = ""

\* a record that is both a large upload and a static asset, both rules
\* enabled, has been counted as large-upload
C8_Witness ==
    /\ probe.kind = "net"
    /\ probe.done
    /\ ProbeUrl = "http://localhost/logo.png"
    /\ ProbeBodySize = 100001
    /\ probe.options.removeLargeUploads
    /\ probe.options.removeStaticAssets
    /\ probe.category = "large-upload"
    /\ probe.stats.removedByCategory = [c \in {"large-upload"} |-> 1]

\* C9: if a URL is removed with some category under given options, every URL
\* that differs from it only in letter case is removed with the same category.
C9_UrlMatchingIgnoresCase ==
    (probe.kind = "net" /\ probe.done /\ probe.category # "") =>
        \A e \in NetProbeEntries :
            (/\ ToLowerCase(StrOr(RequestOf(e), "url", "")) = ToLowerCase(ProbeUrl)
             /\ RequestOf(e) = With(RequestOf(probe.entry), "url", RequestOf(e).url))
            => shouldRemoveRequest(e, probe.options) = probe.category

----------------------------------------------------------------------------
(* Claim about response-body truncation, checked under SpecNetEntry *)

ProbeResponse == probe.entry.snapshot.response

\* C10: with truncateResponseBodies enabled, under every combination of the
\* other transformations, the content of a kept record's response is untouched
\* (no truncation flag, size and text as they were) iff the status is >= 400
\* or the content size is < 1000 (size 0 included); otherwise it carries the
\* truncation flag and the original size.
C10_TruncationBoundary ==
    (/\ probe.kind = "entry"
     /\ probe.done
     /\ probe.outcome = "kept"
     /\ probe.options.truncateResponseBodies
     /\ Has(ProbeResponse, "content")
     /\ Has(ProbeResponse.content, "size"))
    => LET content == ProbeResponse.content
           out     == probe.entryOut.snapshot.response.content
           spared  == \/ Has(ProbeResponse, "status") /\ ProbeResponse.status >= 400
                      \/ content.size < 1000
       IN  /\ spared => out = content
           /\ ~spared => /\ Has(out, "_truncated") /\ out._truncated = TRUE
                         /\ Has(out, "_originalSize") /\ out._originalSize = content.size

ProbeContentOut == probe.entryOut.snapshot.response.content

\* C11: when the response content of a kept record is replaced with the
\* truncation marker, the emitted content carries no field holding the raw
\* payload (text).
C11_MarkerDropsPayload ==
    (/\ probe.kind = "entry"
     /\ probe.done
     /\ probe.outcome = "kept"
     /\ Has(ProbeResponse, "content")
     /\ Has(ProbeContentOut, "_truncated"))
    => ~Has(ProbeContentOut, "text")

----------------------------------------------------------------------------
(* A file filtered, and the file written filtered again with the same preset *)

PresetNames == {"conservative", "moderate", "minimal"}

\* well-formed trace records, as JSON.parse returns them
RerunTraceRecords ==
    {[type |-> "frame-snapshot"],
     [type |-> "before", callId |-> "call@1"],
     [type |-> "console", messageType |-> "info", text |-> "[HMR] connected"],
     [type |-> "console", messageType |-> "info",
      text |-> LongStackText("Render loop", "caused by: Uncaught thing")],
     [type |-> "console", messageType |-> "error",
      text |-> LongStackText("Error: boom", "caused by: Uncaught thing")]}

\* well-formed network records, as JSON.parse returns them
RerunNetRecords ==
    {[snapshot |-> [request |-> r,
                    response |-> [status |-> 200,
                                  content |-> [size |-> 50000, text |-> "body"]]]] :
        r \in {[url |-> "https://sentry.io/api/1/envelope"],
               [url |-> "http://localhost:3000/api/login"],
               [url |-> "http://localhost:3000/api/upload", bodySize |-> 100001],
               [url |-> "http://localhost/logo.png"]}}

RecordFilesOf(records) == UNION {[1..n -> records] : n \in 1..MaxLines}

RECURSIVE traceRecordsLoop(_, _, _, _)
traceRecordsLoop(stats, out, rest, filterOptions) ==
    IF rest = <<>>
    THEN [stats |-> stats, out |-> out]
    ELSE traceRecordsLoop(traceEntryStep(stats, out, Head(rest), filterOptions).stats,
                          traceEntryStep(stats, out, Head(rest), filterOptions).out,
                          Tail(rest), filterOptions)

RECURSIVE netRecordsLoop(_, _, _, _)
netRecordsLoop(stats, out, rest, netOptions) ==
    IF rest = <<>>
    THEN [stats |-> stats, out |-> out]
    ELSE netRecordsLoop(netEntryStep(stats, out, Head(rest), "", netOptions).stats,
                        netEntryStep(stats, out, Head(rest), "", netOptions).out,
                        Tail(rest), netOptions)

\* filterTraceWithPreset / filterNetworkTraceWithPreset on a file whose lines
\* parse to the records given: the records written and the statistics returned.
\* Each call makes its own filter.
FilterRecordsWithPreset(pipeline, records, preset) ==
    IF pipeline = "trace"
    THEN traceRecordsLoop(EmptyTraceStats, <<>>, records, createFilterPresets[preset])
    ELSE netRecordsLoop([EmptyNetStats EXCEPT !.totalRequests = Len(records)], <<>>,
                        records, networkPresets[preset])

NoRun == [stats |-> <<>>, out |-> <<>>]

\* the first run, on the input
FirstRun ==
    /\ probe.kind = "rerun"
    /\ probe.runs = 0
    /\ probe' = [probe EXCEPT
                    !.runs = 1,
                    !.first = FilterRecordsWithPreset(probe.pipeline, probe.input,
                                                      probe.preset)]
    /\ ProbeUnchanged

\* the second run, on the file the first run wrote: every line of it is the
\* JSON text of one record of first.out and parses to the same fields
SecondRun ==
    /\ probe.kind = "rerun"
    /\ probe.runs = 1
    /\ probe.first.out # <<>>
    /\ probe' = [probe EXCEPT
                    !.runs = 2,
                    !.second = FilterRecordsWithPreset(probe.pipeline, probe.first.out,
                                                       probe.preset)]
    /\ ProbeUnchanged

InitRerun ==
    /\ InitFilters
    /\ \/ \E input \in RecordFilesOf(RerunTraceRecords), preset \in PresetNames :
             probe = [kind |-> "rerun", pipeline |-> "trace", input |-> input,
                      preset |-> preset, runs |-> 0, first |-> NoRun, second |-> NoRun]
       \/ \E input \in RecordFilesOf(RerunNetRecords), preset \in PresetNames :
             probe = [kind |-> "rerun", pipeline |-> "network", input |-> input,
                      preset |-> preset, runs |-> 0, first |-> NoRun, second |-> NoRun]

NextRerun == FirstRun \/ SecondRun

SpecRerun == InitRerun /\ [][NextRerun]_vars

\* C12: for every well-formed input and every preset, a second run with the
\* same preset on the output of the first removes no record, in both pipelines.
C12_SecondRunRemovesNothing ==
    (probe.kind = "rerun" /\ probe.runs = 2) =>
        IF probe.pipeline = "trace"
        THEN probe.second.stats.removedEntries = 0
        ELSE probe.second.stats.removedRequests = 0

----------------------------------------------------------------------------
(* Claims about whole calls, checked under Spec *)

\* C13: a call with every toggle disabled returns a removed count of 0 and an
\* empty per-category map, and writes as many records as its input has
\* non-blank lines.
C13_AllOffRemovesNothing ==
    (pc = "returned" /\ \A o \in DOMAIN lastCall.options : ~lastCall.options[o]) =>
        /\ Len(lastCall.output.records) = Cardinality(NonBlank(lastCall.input))
        /\ IF lastCall.pipeline = "trace"
           THEN /\ lastCall.returned.removedEntries = 0
                /\ lastCall.returned.removedByType = <<>>
           ELSE /\ lastCall.returned.removedRequests = 0
                /\ lastCall.returned.removedByCategory = <<>>

----------------------------------------------------------------------------
(* filterTraceWithPreset and filterNetworkTraceWithPreset, with the file system *)

\* the preset names a caller may pass: the three defined ones and one that is not
CallPresetNames == PresetNames \cup {"aggressive"}

\* the input path: no such file, a file that cannot be read, a readable file
InputStates == {"missing", "unreadable", "readable"}

\* presets[preset] of filterNetworkTraceWithPreset is undefined for a name that
\* is not a key; options.removeAnalytics then throws in shouldRemoveRequest
UndefinedOptionsError == "TypeError: Cannot read properties of undefined"

\* the body of the for loop of filterNetworkTrace when options is undefined
netLineStepUndefinedOptions(stats, out, rawLine) ==
    LET line   == Trim(rawLine)
        parsed == JSONparse(line)
    IN  IF line = ""
        THEN [stats |-> stats, out |-> out]
        ELSE IF ~parsed.ok
        THEN [stats |-> stats, out |-> Append(out, netMalformed(parsed.error, line))]
        ELSE IF parsed.value = JsonNull
        THEN [stats |-> stats, out |-> Append(out, netMalformed(NullTypeError, line))]
        ELSE [stats |-> stats,
              out |-> Append(out, netMalformed(UndefinedOptionsError, line))]

RECURSIVE netLoopUndefinedOptions(_, _, _)
netLoopUndefinedOptions(stats, out, rest) ==
    IF rest = <<>>
    THEN [stats |-> stats, out |-> out]
    ELSE netLoopUndefinedOptions(netLineStepUndefinedOptions(stats, out, Head(rest)).stats,
                                 netLineStepUndefinedOptions(stats, out, Head(rest)).out,
                                 Tail(rest))

NoOutput == [written |-> FALSE]

NoStats == [returned |-> FALSE]

Io(op, ok) == [op |-> op, ok |-> ok]

\* the output path after fs.writeFileSync opened it for writing (which empties
\* it): the records written to it, whether the line break that ends the trace
\* file was written, and whether the whole content was written
WrittenFile(records, newline, complete) ==
    [written |-> TRUE, records |-> records, trailingNewline |-> newline,
     complete |-> complete]

\* the call throws: nothing is returned
CallThrows(call, error) == [call EXCEPT !.step = "failed", !.error = error]

\* filterTraceWithPreset, lines 328-335: the preset is looked up and an unknown
\* name throws. filterNetworkTraceWithPreset, line 710: presets[preset] is passed on
CallResolvePreset ==
    /\ probe.kind = "call"
    /\ probe.step = "called"
    /\ probe' = IF probe.pipeline = "trace" /\ probe.preset \notin PresetNames
                THEN CallThrows(probe, "Error: Unknown preset: " \o probe.preset)
                ELSE [probe EXCEPT !.step = "resolved"]
    /\ ProbeUnchanged

\* filterTraceFile: fs.statSync(inputPath), outside any try. filterNetworkTrace
\* has no such call
CallStatInput ==
    /\ probe.kind = "call"
    /\ probe.step = "resolved"
    /\ probe' = IF probe.pipeline = "network"
                THEN [probe EXCEPT !.step = "statted"]
                ELSE IF probe.inputState = "missing"
                THEN CallThrows([probe EXCEPT !.io = Append(@, Io("stat-input", FALSE))],
                                "Error: ENOENT: no such file or directory, stat")
                ELSE [probe EXCEPT !.step = "statted",
                                   !.io = Append(@, Io("stat-input", TRUE))]
    /\ ProbeUnchanged

\* fs.readFileSync(inputPath): filterTraceFile rethrows as "Error reading file",
\* filterNetworkTrace lets the error through
CallReadInput ==
    /\ probe.kind = "call"
    /\ probe.step = "statted"
    /\ probe' = IF probe.inputState # "readable"
                THEN CallThrows([probe EXCEPT !.io = Append(@, Io("read-input", FALSE))],
                                IF probe.pipeline = "trace"
                                THEN "Error: Error reading file"
                                ELSE "Error: no such file or cannot be read, open")
                ELSE [probe EXCEPT !.step = "read",
                                   !.io = Append(@, Io("read-input", TRUE))]
    /\ ProbeUnchanged

\* the for loop over the lines read
CallFilterLines ==
    /\ probe.kind = "call"
    /\ probe.step = "read"
    /\ probe' =
          [probe EXCEPT
              !.step = "filtered",
              !.loop =
                 IF probe.pipeline = "trace"
                 THEN traceLoop(EmptyTraceStats, <<>>, probe.input,
                                createFilterPresets[probe.preset])
                 ELSE IF probe.preset \in PresetNames
                 THEN netLoop([EmptyNetStats EXCEPT
                                  !.totalRequests = Len(TrimSplit(probe.input))],
                              <<>>, TrimSplit(probe.input), networkPresets[probe.preset])
                 ELSE netLoopUndefinedOptions(
                         [EmptyNetStats EXCEPT
                             !.totalRequests = Len(TrimSplit(probe.input))],
                         <<>>, TrimSplit(probe.input))]
    /\ ProbeUnchanged

\* CallWriteOutput with the write error caught and not rethrown
CallWriteOutputSwallowingError ==
    /\ probe.kind = "call"
    /\ probe.step = "filtered"
    /\ \/ /\ ~probe.outputWritable
          /\ probe' = [probe EXCEPT !.step = "written",
                                    !.io = Append(@, Io("write-output", FALSE))]
       \/ /\ probe.outputWritable
          /\ probe.diskFull
          /\ \E n \in 0..Len(probe.loop.out) :
                /\ n = Len(probe.loop.out) => n = 0
                /\ probe' = [probe EXCEPT
                                !.step = "written",
                                !.io = Append(@, Io("write-output", FALSE)),
                                !.output = WrittenFile(SubSeq(probe.loop.out, 1, n),
                                                       FALSE, FALSE)]
       \/ /\ probe.outputWritable
          /\ ~probe.diskFull
          /\ probe' = [probe EXCEPT
                          !.step = "written",
                          !.io = Append(@, Io("write-output", TRUE)),
                          !.output = WrittenFile(probe.loop.out,
                                                 probe.pipeline = "trace", TRUE)]
    /\ ProbeUnchanged

\* fs.writeFileSync(outputPath, ...): it fails when the path cannot be opened,
\* or part-way when the device fills up, the file then holding what was written
\* so far; filterTraceFile rethrows as "Error writing file", filterNetworkTrace
\* lets the error through
CallWriteOutput ==
    /\ probe.kind = "call"
    /\ probe.step = "filtered"
    /\ \/ /\ ~probe.outputWritable
          /\ probe' = CallThrows(
                          [probe EXCEPT !.io = Append(@, Io("write-output", FALSE))],
                          IF probe.pipeline = "trace"
                          THEN "Error: Error writing file"
                          ELSE "Error: cannot write, open")
       \/ /\ probe.outputWritable
          /\ probe.diskFull
          /\ \E n \in 0..Len(probe.loop.out) :
                /\ n = Len(probe.loop.out) => n = 0
                /\ probe' = CallThrows(
                                [probe EXCEPT
                                    !.io = Append(@, Io("write-output", FALSE)),
                                    !.output = WrittenFile(SubSeq(probe.loop.out, 1, n),
                                                           FALSE, FALSE)],
                                IF probe.pipeline = "trace"
                                THEN "Error: Error writing file"
                                ELSE "Error: ENOSPC: no space left on device, write")
       \/ /\ probe.outputWritable
          /\ ~probe.diskFull
          /\ probe' = [probe EXCEPT
                          !.step = "written",
                          !.io = Append(@, Io("write-output", TRUE)),
                          !.output = WrittenFile(probe.loop.out,
                                                 probe.pipeline = "trace", TRUE)]
    /\ ProbeUnchanged

\* filterTraceFile: fs.statSync(outputPath) and printSummary; then both return
\* this.stats
CallReturn ==
    /\ probe.kind = "call"
    /\ probe.step = "written"
    /\ probe' = [probe EXCEPT
                    !.step = "returned",
                    !.io = IF probe.pipeline = "trace"
                           THEN Append(@, Io("stat-output", TRUE)) ELSE @,
                    !.stats = probe.loop.stats]
    /\ ProbeUnchanged

InitCall ==
    /\ InitFilters
    /\ \E pipeline \in {"trace", "network"}, preset \in CallPresetNames,
          inputState \in InputStates, outputWritable \in BOOLEAN,
          diskFull \in BOOLEAN :
          \E input \in FilesOf(IF pipeline = "trace" THEN TraceLines ELSE NetLines) :
             probe = [kind |-> "call", pipeline |-> pipeline, preset |-> preset,
                      input |-> input, inputState |-> inputState,
                      outputWritable |-> outputWritable, diskFull |-> diskFull,
                      step |-> "called",
                      io |-> <<>>, loop |-> NoRun, output |-> NoOutput,
                      stats |-> NoStats, error |-> ""]

NextCall ==
    \/ CallResolvePreset
    \/ CallStatInput
    \/ CallReadInput
    \/ CallFilterLines
    \/ CallWriteOutput
    \/ CallReturn

SpecCall == InitCall /\ [][NextCall]_vars

\* C14: a call with a preset name outside conservative, moderate, minimal fails
\* with an error before the input is read or any output written; it never
\* proceeds.
C14_UnknownPresetFailsBeforeIo ==
    (probe.kind = "call" /\ probe.preset \notin PresetNames) =>
        /\ probe.io = <<>>
        /\ probe.output = NoOutput
        /\ probe.stats = NoStats
        /\ probe.step = "failed" => probe.error # ""
        /\ probe.step \notin {"read", "filtered", "written", "returned"}

\* C20: a failure to read the input or to write the output ends the call with an
\* error: nothing follows the failed operation, no statistics are returned, and
\* no operation is attempted twice.
C20_IoFailureIsFatal ==
    probe.kind = "call" =>
        /\ \A i \in DOMAIN probe.io :
              ~probe.io[i].ok =>
                 /\ i = Len(probe.io)
                 /\ probe.step = "failed"
                 /\ probe.error # ""
                 /\ probe.stats = NoStats
        /\ \A i, j \in DOMAIN probe.io : probe.io[i].op = probe.io[j].op => i = j
        /\ (probe.inputState # "readable" \/ ~probe.outputWritable \/ probe.diskFull) =>
              (probe.stats = NoStats /\ probe.step # "returned")
        /\ probe.inputState # "readable" => probe.output = NoOutput

\* a call whose input was read and filtered has failed on writing its output
C20_Witness ==
    /\ probe.kind = "call"
    /\ probe.step = "failed"
    /\ Len(probe.io) >= 1
    /\ probe.io[Len(probe.io)] = Io("write-output", FALSE)
    /\ probe.loop # NoRun
    /\ probe.stats = NoStats

----------------------------------------------------------------------------
(* The layout of the written file, checked under Spec *)

\* the text written, each record standing as "{}" for its JSON.stringify text
\* (one line that starts with "{" and ends with "}"): the records joined by
\* line breaks, and the line break filterTraceFile appends
WrittenLayout(output) ==
    JoinLines([i \in DOMAIN output.records |-> "{}"])
    \o (IF output.trailingNewline THEN "\n" ELSE "")

\* C15: the file a call writes ends with exactly one line break and holds no
\* blank line, whatever the input, also when no record is kept.
C15_OutputEndsWithOneNewline ==
    pc = "returned" =>
        LET text == WrittenLayout(lastCall.output)
        IN  /\ EndsWith(text, "\n")
            /\ ~Includes(text, "\n\n")
            /\ ~StartsWith(text, "\n")

\* record r is what the line with trimmed text t left in the output: its
\* malformed record, or the record it parsed to (told by its type, or by its
\* request URL in the network pipeline)
ComesFromLine(r, pipeline, t) ==
    IF ~JSONparse(t).ok
    THEN IsMalformedFor(r, pipeline, t)
    ELSE LET v == JSONparse(t).value
         IN  IF pipeline = "trace"
             THEN Has(v, "type") /\ Has(r, "type") /\ r.type = v.type
             ELSE /\ Has(v, "snapshot") /\ Has(r, "snapshot")
                  /\ ~Has(r, "_originalLine")
                  /\ RequestOf(r).url = RequestOf(v).url

\* C16: the records written correspond, in order, to a subsequence of the
\* non-blank input lines.
C16_OutputKeepsInputOrder ==
    pc = "returned" =>
        LET out   == lastCall.output.records
            input == lastCall.input
        IN  \E f \in [DOMAIN out -> DOMAIN input] :
               /\ \A i, j \in DOMAIN out : i < j => f[i] < f[j]
               /\ \A i \in DOMAIN out :
                     /\ f[i] \in NonBlank(input)
                     /\ ComesFromLine(out[i], lastCall.pipeline, Trim(input[f[i]]))

\* a call has written two different records
C16_Witness ==
    /\ pc = "returned"
    /\ Len(lastCall.output.records) >= 2
    /\ lastCall.output.records[1] # lastCall.output.records[2]
    /\ lastCall.input[1] # lastCall.input[2]

----------------------------------------------------------------------------
(* Claims about stack-trace truncation, checked under SpecTraceRules *)

\* the first 10 lines of a text, the marker line, and its last 5 lines
C17_Shortened(text) ==
    LET parts == SplitLines(text)
        head  == IF Len(parts) < 10 THEN Len(parts) ELSE 10
        tail  == IF Len(parts) < 5 THEN 1 ELSE Len(parts) - 4
    IN  JoinLines(SubSeq(parts, 1, head)
                  \o <<"    ... [truncated stack trace] ...">>
                  \o SubSeq(parts, tail, Len(parts)))

\* the record probe.entry is emitted with its text shortened and every other
\* field as it was
C17_EmittedShortened ==
    /\ DOMAIN probe.entryOut = DOMAIN probe.entry
    /\ \A k \in DOMAIN probe.entry \ {"text"} : probe.entryOut[k] = probe.entry[k]
    /\ probe.entryOut.text = C17_Shortened(probe.entry.text)
    /\ Len(SplitLines(probe.entryOut.text)) = 16

C17_KeptConsoleWithText ==
    /\ probe.kind = "trace"
    /\ probe.done
    /\ ~probe.remove
    /\ probe.options.truncateStackTraces
    /\ StrOr(probe.entry, "type", "") = "console"
    /\ Has(probe.entry, "text")

\* C17: with truncateStackTraces enabled, a kept console record whose text is
\* longer than 5000 characters and contains "\n    at " is emitted with the
\* text shortened to 16 lines and its other fields unchanged; any other kept
\* console record is emitted unchanged.
C17_LongStackTraceShortened ==
    C17_KeptConsoleWithText =>
        IF Len(probe.entry.text) > 5000 /\ Includes(probe.entry.text, "\n    at ")
        THEN C17_EmittedShortened
        ELSE probe.entryOut = probe.entry

\* C17 (amended): the text is shortened when, in addition, it has more than 20
\* lines; every other kept record is emitted unchanged.
C17_LongStackTraceOfManyLinesShortened ==
    (probe.kind = "trace" /\ probe.done /\ ~probe.remove) =>
        IF /\ C17_KeptConsoleWithText
           /\ Len(probe.entry.text) > 5000
           /\ Includes(probe.entry.text, "\n    at ")
           /\ Len(SplitLines(probe.entry.text)) > 20
        THEN C17_EmittedShortened
        ELSE probe.entryOut = probe.entry

\* a console record with a stack trace of 22 lines and more than 5000
\* characters has been emitted with 16 lines
C17_Witness ==
    /\ C17_KeptConsoleWithText
    /\ Len(probe.entry.text) > 5000
    /\ Len(SplitLines(probe.entry.text)) = 22
    /\ Len(SplitLines(probe.entryOut.text)) = 16
    /\ probe.entryOut.messageType = probe.entry.messageType

----------------------------------------------------------------------------
(* Claims about the transformations of a kept record, checked under SpecNetEntry *)

\* the condition of the claim on one header, for the essential list given
C18_Satisfies(header, essentials) ==
    \/ \E e \in essentials : Includes(ToLowerCase(header.name), e)
    \/ Includes(ToLowerCase(header.name), "error")
    \/ Includes(ToLowerCase(header.name), "warning")
    \/ /\ ToLowerCase(header.name) \in {"cookie", "set-cookie"}
       /\ \E word \in {"auth", "session", "csrf"} :
             Includes(ToLowerCase(header.value), word)

\* an accept-encoding / accept-language header with one of the default values
C18_DefaultAcceptHeader(header) ==
    /\ ToLowerCase(header.name) \in {"accept-encoding", "accept-language"}
    /\ header.value \in {"gzip, deflate, br, zstd", "en-US"}

C18_KeptWithHeaders ==
    /\ probe.kind = "entry"
    /\ probe.done
    /\ probe.outcome = "kept"
    /\ probe.options.filterHeaders
    /\ Has(probe.entry.snapshot.request, "headers")
    /\ Has(probe.entry.snapshot.response, "headers")

\* C18: with filterHeaders enabled, the headers of a kept record are exactly
\* the original headers, in order, that satisfy the condition for their
\* direction.
C18_HeadersExactlyTheEssentialOnes ==
    C18_KeptWithHeaders =>
        LET InRequest(h)  == C18_Satisfies(h, essentialRequestHeaders)
            InResponse(h) == C18_Satisfies(h, essentialResponseHeaders)
        IN  /\ probe.entryOut.snapshot.request.headers =
                  SelectSeq(probe.entry.snapshot.request.headers, InRequest)
            /\ probe.entryOut.snapshot.response.headers =
                  SelectSeq(probe.entry.snapshot.response.headers, InResponse)

\* C18 (amended): as C18, except that with simplifyVerboseFields also enabled
\* the request headers accept-encoding and accept-language with a default
\* value are dropped as well.
C18_HeadersEssentialAndNotSimplified ==
    C18_KeptWithHeaders =>
        LET InRequest(h) ==
                /\ C18_Satisfies(h, essentialRequestHeaders)
                /\ ~(probe.options.simplifyVerboseFields /\ C18_DefaultAcceptHeader(h))
            InResponse(h) == C18_Satisfies(h, essentialResponseHeaders)
        IN  /\ probe.entryOut.snapshot.request.headers =
                  SelectSeq(probe.entry.snapshot.request.headers, InRequest)
            /\ probe.entryOut.snapshot.response.headers =
                  SelectSeq(probe.entry.snapshot.response.headers, InResponse)

\* a record has been emitted with two of its three request headers, the
\* cookie without auth, session or csrf dropped
C18_Witness ==
    /\ C18_KeptWithHeaders
    /\ probe.entry.snapshot.request.headers =
          <<Header("Cookie", "theme=dark"), Header("Authorization", "Bearer t"),
            Header("Accept-Language", "fr")>>
    /\ probe.entryOut.snapshot.request.headers =
          <<Header("Authorization", "Bearer t"), Header("Accept-Language", "fr")>>
    /\ Len(probe.entry.snapshot.response.headers) = 3
    /\ Len(probe.entryOut.snapshot.response.headers) = 2

\* the transformations of filterEntry, numbered in its order
C19_Step(i, snapshot, opts) ==
    CASE i = 1 -> stepFilterHeaders(snapshot, opts)
      [] i = 2 -> stepTimingDetails(snapshot, opts)
      [] i = 3 -> stepResponseBodies(snapshot, opts)
      [] i = 4 -> stepVerboseFields(snapshot, opts)
      [] i = 5 -> stepHttpMetadata(snapshot, opts)
      [] i = 6 -> stepCookies(snapshot, opts)
      [] i = 7 -> stepContentHashes(snapshot, opts)
      [] i = 8 -> stepPrecision(snapshot, opts)

RECURSIVE C19_ApplyInOrder(_, _, _)
C19_ApplyInOrder(order, snapshot, opts) ==
    IF order = <<>> THEN snapshot
    ELSE C19_ApplyInOrder(Tail(order), C19_Step(Head(order), snapshot, opts), opts)

\* the orders that exchange two steps of filterEntry's order, and its reverse
C19_Orders ==
    {[k \in 1..8 |-> IF k = i THEN j ELSE IF k = j THEN i ELSE k] : i, j \in 1..8}
    \cup {[k \in 1..8 |-> 9 - k]}

\* C19: applying the enabled transformations in another order yields the
\* record filterEntry emits (stated for the orders that exchange two steps and
\* for the reverse order).
C19_TransformationsCommute ==
    (probe.kind = "entry" /\ probe.done /\ probe.outcome = "kept") =>
        \A order \in C19_Orders :
            C19_ApplyInOrder(order, probe.entry.snapshot, probe.options)
               = probe.entryOut.snapshot

\* C21: at every point of a call the output path holds its previous content
\* (or does not exist) or the complete filtered content, never part of it.
C21_OutputWrittenAtomically ==
    probe.kind = "call" =>
        \/ probe.output = NoOutput
        \/ /\ probe.output.complete
           /\ probe.output.records = probe.loop.out

-----------------------------------------------------------------------------
(* The size statistics *)

\* the texts above that have no white space between their tokens
CompactJson ==
    {SnapshotJson, HmrJson, BeforeJson, AnalyticsJson, LoginJson, FontsJson,
     FlatJson, CafeJson, CafeNetJson}

\* JSON.stringify(value) of a value parsed from one of the compact texts: the
\* text itself, members in insertion order and "é" not escaped
JSONstringify(value) == CHOOSE text \in CompactJson : JSONparse(text).value = value

\* the characters of the inputs that UTF-8 encodes in two bytes; all the others
\* are ASCII and take one
TwoByteCharacters == {"é"}

\* the size of a file holding text in UTF-8, as fs.statSync(path).size gives it
RECURSIVE Utf8Length(_)
Utf8Length(text) ==
    IF text = "" THEN 0
    ELSE (IF CharAt(text, 1) \in TwoByteCharacters THEN 2 ELSE 1)
         + Utf8Length(SubSeq(text, 2, Len(text)))

\* the length property of a string: its number of UTF-16 code units, one for
\* every character of the inputs
StringLength(text) == Len(text)

\* filteredEntries.map((entry) => JSON.stringify(entry)).join("\n")
StringifyRecords(records) ==
    JoinLines([i \in 1..Len(records) |-> JSONstringify(records[i])])

SizeTraceLines == {SnapshotJson, BeforeJson, CafeJson}

SizeNetLines == {AnalyticsJson, FontsJson, CafeNetJson}

\* filterTraceFile line 72: sizeBefore = fs.statSync(inputPath).size.
\* filterNetworkTrace lines 72-73: sizeBefore = inputContent.length
SizeMeasureInput ==
    /\ probe.kind = "size"
    /\ probe.step = "called"
    /\ probe' = [probe EXCEPT
                    !.step = "measured",
                    !.sizeBefore = IF probe.pipeline = "trace"
                                   THEN Utf8Length(JoinLines(probe.input))
                                   ELSE StringLength(JoinLines(probe.input))]
    /\ ProbeUnchanged

\* the loop over the lines, and the output content built from the kept records
SizeFilterLines ==
    /\ probe.kind = "size"
    /\ probe.step = "measured"
    /\ probe' = [probe EXCEPT
                    !.step = "filtered",
                    !.outputContent =
                       StringifyRecords(
                          IF probe.pipeline = "trace"
                          THEN traceLoop(EmptyTraceStats, <<>>, probe.input,
                                         probe.options).out
                          ELSE netLoop(EmptyNetStats, <<>>, TrimSplit(probe.input),
                                       probe.options).out)]
    /\ ProbeUnchanged

\* fs.writeFileSync(outputPath, filteredContent + "\n", "utf8") in filterTraceFile,
\* fs.writeFileSync(outputPath, outputContent) in filterNetworkTrace
SizeWriteOutput ==
    /\ probe.kind = "size"
    /\ probe.step = "filtered"
    /\ probe' = [probe EXCEPT
                    !.step = "written",
                    !.outputFile = IF probe.pipeline = "trace"
                                   THEN probe.outputContent \o "\n"
                                   ELSE probe.outputContent]
    /\ ProbeUnchanged

\* filterTraceFile line 121: sizeAfter = fs.statSync(outputPath).size.
\* filterNetworkTrace line 116: sizeAfter = outputContent.length
SizeMeasureOutput ==
    /\ probe.kind = "size"
    /\ probe.step = "written"
    /\ probe' = [probe EXCEPT
                    !.step = "returned",
                    !.sizeAfter = IF probe.pipeline = "trace"
                                  THEN Utf8Length(probe.outputFile)
                                  ELSE StringLength(probe.outputContent)]
    /\ ProbeUnchanged

InitSizes ==
    /\ InitFilters
    /\ \E pipeline \in {"trace", "network"} :
          \E input \in FilesOf(IF pipeline = "trace" THEN SizeTraceLines
                               ELSE SizeNetLines),
             opts \in (IF pipeline = "trace" THEN TraceRunOptions ELSE NetRunOptions) :
             probe = [kind |-> "size", pipeline |-> pipeline, input |-> input,
                      options |-> opts, step |-> "called", sizeBefore |-> 0,
                      outputContent |-> "", outputFile |-> "", sizeAfter |-> 0]

NextSizes ==
    \/ SizeMeasureInput
    \/ SizeFilterLines
    \/ SizeWriteOutput
    \/ SizeMeasureOutput

SpecSizes == InitSizes /\ [][NextSizes]_vars

\* C22: in both pipelines sizeBefore is the byte length of the input file and
\* sizeAfter the byte length of the output file written, also for inputs with
\* characters that take several bytes in UTF-8.
C22_SizesAreByteLengths ==
    (probe.kind = "size" /\ probe.step = "returned") =>
        /\ probe.sizeBefore = Utf8Length(JoinLines(probe.input))
        /\ probe.sizeAfter = Utf8Length(probe.outputFile)

-----------------------------------------------------------------------------
(* The preset tables *)

\* the toggles a preset of a table enables
C23_Enabled(table, preset) == {o \in DOMAIN table[preset] : table[preset][o]}

\* C23: in the table of the pipeline called, minimal enables every toggle,
\* conservative enables exactly removeFrameSnapshots and truncateStackTraces (trace)
\* or exactly filterHeaders and removeAnalytics (network), and moderate lies
\* between the two.
C23_PresetsAreNested ==
    probe.kind = "call" =>
        /\ probe.pipeline = "trace" =>
              /\ C23_Enabled(createFilterPresets, "minimal") = TraceOptionNames
              /\ C23_Enabled(createFilterPresets, "conservative")
                    = {"removeFrameSnapshots", "truncateStackTraces"}
              /\ C23_Enabled(createFilterPresets, "conservative")
                    \subseteq C23_Enabled(createFilterPresets, "moderate")
              /\ C23_Enabled(createFilterPresets, "moderate")
                    \subseteq C23_Enabled(createFilterPresets, "minimal")
        /\ probe.pipeline = "network" =>
              /\ C23_Enabled(networkPresets, "minimal") = NetOptionNames
              /\ C23_Enabled(networkPresets, "conservative")
                    = {"filterHeaders", "removeAnalytics"}
              /\ C23_Enabled(networkPresets, "conservative")
                    \subseteq C23_Enabled(networkPresets, "moderate")
              /\ C23_Enabled(networkPresets, "moderate")
                    \subseteq C23_Enabled(networkPresets, "minimal")

\* a trace call with the conservative preset has filtered its lines
C23_Witness ==
    /\ probe.kind = "call"
    /\ probe.pipeline = "trace"
    /\ probe.preset = "conservative"
    /\ probe.step = "filtered"
    /\ probe.loop.out # <<>>

-----------------------------------------------------------------------------
(* Two invocations at once *)

\* the files the two invocations read, as content.split("\n") gives them
PairTraceFiles ==
    {<<SnapshotJson, BeforeJson>>, <<BeforeJson, SnapshotJson>>, <<TraceBadLine>>}

PairNetFiles ==
    {<<AnalyticsJson, LoginJson>>, <<LoginJson, AnalyticsJson, "">>, <<NetBadLine>>}

PairPresetNames == {"conservative", "minimal"}

\* the filter object of invocation i, with one object shared by all invocations
PairFilterOfShared(i) == 1

\* the filter object of invocation i: each invocation constructs its own with
\* new PlaywrightTraceFilter() / new NetworkTraceFilter()
PairFilterOf(i) == i

PairOptions(call) ==
    IF call.pipeline = "trace" THEN createFilterPresets[call.preset]
    ELSE networkPresets[call.preset]

\* the start of filterTraceFile: statistics reset and content split into lines.
\* The start of filterNetworkTrace: content trimmed and split, totalRequests set
PairStart(i) ==
    /\ probe.kind = "pair"
    /\ probe.calls[i].step = "called"
    /\ probe' =
          IF probe.calls[i].pipeline = "trace"
          THEN [probe EXCEPT
                   !.calls[i].step = "looping",
                   !.calls[i].lines = probe.calls[i].input,
                   !.traceFilters[PairFilterOf(i)] = EmptyTraceStats]
          ELSE [probe EXCEPT
                   !.calls[i].step = "looping",
                   !.calls[i].lines = TrimSplit(probe.calls[i].input),
                   !.netFilters[PairFilterOf(i)].totalRequests =
                       Len(TrimSplit(probe.calls[i].input))]
    /\ ProbeUnchanged

\* one iteration of the loop of invocation i, on this.stats of its filter and on
\* its local filteredEntries
PairLine(i) ==
    /\ probe.kind = "pair"
    /\ probe.calls[i].step = "looping"
    /\ probe.calls[i].idx <= Len(probe.calls[i].lines)
    /\ probe' =
          IF probe.calls[i].pipeline = "trace"
          THEN [probe EXCEPT
                   !.calls[i].idx = @ + 1,
                   !.calls[i].out =
                       traceLineStep(probe.traceFilters[PairFilterOf(i)], @,
                                     probe.calls[i].lines[probe.calls[i].idx],
                                     PairOptions(probe.calls[i])).out,
                   !.traceFilters[PairFilterOf(i)] =
                       traceLineStep(@, probe.calls[i].out,
                                     probe.calls[i].lines[probe.calls[i].idx],
                                     PairOptions(probe.calls[i])).stats]
          ELSE [probe EXCEPT
                   !.calls[i].idx = @ + 1,
                   !.calls[i].out =
                       netLineStep(probe.netFilters[PairFilterOf(i)], @,
                                   probe.calls[i].lines[probe.calls[i].idx],
                                   PairOptions(probe.calls[i])).out,
                   !.netFilters[PairFilterOf(i)] =
                       netLineStep(@, probe.calls[i].out,
                                   probe.calls[i].lines[probe.calls[i].idx],
                                   PairOptions(probe.calls[i])).stats]
    /\ ProbeUnchanged

\* the output of invocation i is written and this.stats returned
PairReturn(i) ==
    /\ probe.kind = "pair"
    /\ probe.calls[i].step = "looping"
    /\ probe.calls[i].idx > Len(probe.calls[i].lines)
    /\ probe' = [probe EXCEPT
                    !.calls[i].step = "returned",
                    !.calls[i].written = probe.calls[i].out,
                    !.calls[i].stats =
                        IF probe.calls[i].pipeline = "trace"
                        THEN probe.traceFilters[PairFilterOf(i)]
                        ELSE probe.netFilters[PairFilterOf(i)]]
    /\ ProbeUnchanged

PairCall(pipeline, input, preset) ==
    [pipeline |-> pipeline, input |-> input, preset |-> preset, step |-> "called",
     lines |-> <<>>, idx |-> 1, out |-> <<>>, written |-> <<>>, stats |-> NoStats]

PairInputs(pipeline) == IF pipeline = "trace" THEN PairTraceFiles ELSE PairNetFiles

InitPair ==
    /\ InitFilters
    /\ \E first \in {"trace", "network"}, second \in {"trace", "network"},
          preset \in PairPresetNames :
          \E a \in PairInputs(first), b \in PairInputs(second) :
             probe = [kind |-> "pair",
                      calls |-> <<PairCall(first, a, preset),
                                  PairCall(second, b, preset)>>,
                      traceFilters |-> [f \in 1..2 |-> EmptyTraceStats],
                      netFilters |-> [f \in 1..2 |-> EmptyNetStats]]

NextPair ==
    \E i \in 1..2 :
       \/ PairStart(i)
       \/ PairLine(i)
       \/ PairReturn(i)

SpecPair == InitPair /\ [][NextPair]_vars

\* what an invocation returns and writes when it runs alone
C24_Alone(call) ==
    IF call.pipeline = "trace"
    THEN traceLoop(EmptyTraceStats, <<>>, call.input, PairOptions(call))
    ELSE netLoop([EmptyNetStats EXCEPT !.totalRequests = Len(TrimSplit(call.input))],
                 <<>>, TrimSplit(call.input), PairOptions(call))

\* C24: under any interleaving of two preset invocations on distinct paths, each
\* returns the statistics and writes the output it returns and writes when it
\* runs alone.
C24_InvocationsAreIndependent ==
    probe.kind = "pair" =>
        \A i \in 1..2 :
           probe.calls[i].step = "returned" =>
              /\ probe.calls[i].stats = C24_Alone(probe.calls[i]).stats
              /\ probe.calls[i].written = C24_Alone(probe.calls[i]).out

\* both invocations were inside their loops at once, both removed a record, and
\* both have returned
C24_Witness ==
    /\ probe.kind = "pair"
    /\ probe.calls[1].step = "returned"
    /\ probe.calls[2].step = "returned"
    /\ probe.calls[1].pipeline = probe.calls[2].pipeline
    /\ Len(probe.calls[1].written) < Len(probe.calls[1].lines)
    /\ Len(probe.calls[2].written) < Len(probe.calls[2].lines)

-----------------------------------------------------------------------------
(* The fields of a kept trace record *)

\* C25: a kept trace record is emitted with the fields it was read with and
\* every field other than text unchanged; the text changes only on a console
\* record longer than the truncation threshold with truncateStackTraces on.
C25_KeptRecordUnmodified ==
    (probe.kind = "trace" /\ probe.done /\ ~probe.remove) =>
        /\ DOMAIN probe.entryOut = DOMAIN probe.entry
        /\ \A f \in DOMAIN probe.entry \ {"text"} : probe.entryOut[f] = probe.entry[f]
        /\ (Has(probe.entry, "text") /\ probe.entryOut.text # probe.entry.text) =>
              /\ probe.options.truncateStackTraces
              /\ StrOr(probe.entry, "type", "") = "console"
              /\ Len(probe.entry.text) > StackTraceMinLength

\* a console record with other fields was kept and its text shortened
C25_Witness ==
    /\ probe.kind = "trace"
    /\ probe.done
    /\ ~probe.remove
    /\ Has(probe.entry, "text")
    /\ probe.entryOut.text # probe.entry.text
    /\ DOMAIN probe.entry \ {"text", "type"} # {}

-----------------------------------------------------------------------------
(* The server: createFilteredTrace / createFilteredNetworkTrace and the
   get-trace / get-network-log tools *)

\* the modification times of the files
MaxTime == 3

\* s.indexOf(pattern) + 1
IndexOf(s, pattern) ==
    IF Includes(s, pattern)
    THEN CHOOSE i \in 1..(Len(s) - Len(pattern) + 1) :
            /\ SubSeq(s, i, i + Len(pattern) - 1) = pattern
            /\ \A j \in 1..(i - 1) : SubSeq(s, j, j + Len(pattern) - 1) # pattern
    ELSE 0

\* s.replace(pattern, replacement) for a string pattern: the first occurrence
Replace(s, pattern, replacement) ==
    IF IndexOf(s, pattern) = 0 THEN s
    ELSE SubSeq(s, 1, IndexOf(s, pattern) - 1) \o replacement
         \o SubSeq(s, IndexOf(s, pattern) + Len(pattern), Len(s))

ToolNames == {"get-trace", "get-network-log"}

\* ".trace" for get-trace, ".network" for get-network-log
ToolExtension(tool) == IF tool = "get-trace" THEN ".trace" ELSE ".network"

\* originalTraceFilePath / originalNetworkFilePath
OriginalPath(tool, traceDirectory) ==
    traceDirectory \o "/trace/0-trace" \o ToolExtension(tool)

\* filteredPath of createFilteredTrace / createFilteredNetworkTrace
FilteredPath(tool, originalPath) ==
    Replace(originalPath, ToolExtension(tool), "_filtered" \o ToolExtension(tool))

FilteredLabel(tool) ==
    IF tool = "get-trace"
    THEN "Filtered trace content (95%+ size reduction applied):"
    ELSE "Filtered network log (80%+ size reduction, third-party services removed):"

UnfilteredLabel(tool) == IF tool = "get-trace" THEN "Trace content:" ELSE "Network log:"

RawLabel(tool) ==
    IF tool = "get-trace" THEN "Raw trace content (unfiltered):"
    ELSE "Raw network log (unfiltered):"

ErrorLabel(tool) ==
    IF tool = "get-trace" THEN "Error reading trace:" ELSE "Error reading network file:"

\* the trace directories of the test runs, getFullTracePath(traceDirName), under
\* three project roots
TraceDirectories ==
    {"/srv/app/test-results/home-chromium",
     "/srv/app_filtered.trace/test-results/home-chromium",
     "/srv/app_filtered.network/test-results/home-chromium"}

NoCheck == [done |-> FALSE]

NoToolOutput == [returned |-> FALSE]

NoFile == [exists |-> FALSE, mtime |-> 0, content |-> "none"]

\* filteredStat.mtime >= originalStat.mtime
CacheIsFreshOrSameAge(filteredMtime, originalMtime) == filteredMtime >= originalMtime

\* filteredStat.mtime > originalStat.mtime
CacheIsFresh(filteredMtime, originalMtime) == filteredMtime > originalMtime

\* createFilteredTrace / createFilteredNetworkTrace is entered
EnterCreate(tool, pass) ==
    [tool EXCEPT !.step = "create", !.pass = pass, !.check = NoCheck, !.ran = FALSE,
                 !.filterFailed = FALSE, !.path = ""]

\* createFilteredTrace / createFilteredNetworkTrace has resolved to path: the
\* call from maybeExtractTraceZip drops it, the tool goes on to read it
LeaveCreate(tool, path) ==
    [tool EXCEPT !.step = IF tool.pass = 1 THEN "body" ELSE "read", !.path = path]

\* the tool's catch: the error is appended to the output
ToolCatches(tool) ==
    [tool EXCEPT !.step = "returned",
                 !.output = [returned |-> TRUE, label |-> ErrorLabel(tool.tool),
                             content |-> "none"]]

\* maybeExtractTraceZip: the archive is unpacked and, when the unpacked file
\* exists, its filtered copy is created without waiting for the result. The
\* filter has no await, so that call has finished when the function returns
ToolExtract ==
    /\ probe.kind = "tool"
    /\ probe.step = "called"
    /\ probe' = IF probe.originalState # "missing"
                THEN EnterCreate(probe, 1)
                ELSE [probe EXCEPT !.step = "body"]
    /\ ProbeUnchanged

\* createFilteredTrace / createFilteredNetworkTrace up to the try: the test of
\* the filtered file and of the two modification times. fs.statSync of a
\* missing original throws, which the tool catches
CreateCheckCache ==
    /\ probe.kind = "tool"
    /\ probe.step = "create"
    /\ probe' =
          IF ~probe.filtered.exists
          THEN [probe EXCEPT !.step = "filter",
                             !.check = [done |-> TRUE, existed |-> FALSE,
                                        filteredMtime |-> 0,
                                        originalMtime |-> probe.originalMtime]]
          ELSE IF probe.originalState = "missing"
          THEN ToolCatches(probe)
          ELSE IF CacheIsFresh(probe.filtered.mtime, probe.originalMtime)
          THEN LeaveCreate([probe EXCEPT
                               !.check = [done |-> TRUE, existed |-> TRUE,
                                          filteredMtime |-> probe.filtered.mtime,
                                          originalMtime |-> probe.originalMtime]],
                           FilteredPath(probe.tool, probe.original))
          ELSE [probe EXCEPT !.step = "filter",
                             !.check = [done |-> TRUE, existed |-> TRUE,
                                        filteredMtime |-> probe.filtered.mtime,
                                        originalMtime |-> probe.originalMtime]]
    /\ ProbeUnchanged

\* the try of createFilteredTrace / createFilteredNetworkTrace: the filter runs
\* with the minimal preset; it fails when the original cannot be read or the
\* filtered path cannot be written, a write that fails part-way leaving a
\* partial file. On failure the original path is returned
CreateRunFilter ==
    /\ probe.kind = "tool"
    /\ probe.step = "filter"
    /\ \E now \in 1..MaxTime :
          probe' =
             IF probe.originalState = "readable" /\ probe.outputState = "writable"
             THEN LeaveCreate([probe EXCEPT
                                  !.ran = TRUE,
                                  !.filtered = [exists |-> TRUE, mtime |-> now,
                                                content |-> "filtered"]],
                              FilteredPath(probe.tool, probe.original))
             ELSE LeaveCreate([probe EXCEPT
                                  !.ran = TRUE,
                                  !.filterFailed = TRUE,
                                  !.filtered =
                                     IF /\ probe.originalState = "readable"
                                        /\ probe.outputState = "full"
                                     THEN [exists |-> TRUE, mtime |-> now,
                                           content |-> "partial"]
                                     ELSE @],
                              probe.original)
    /\ ProbeUnchanged

\* execute of get-trace / get-network-log after maybeExtractTraceZip: with raw
\* the original is read and returned, else its filtered copy is asked for
ToolBody ==
    /\ probe.kind = "tool"
    /\ probe.step = "body"
    /\ probe' = IF ~probe.raw
                THEN EnterCreate(probe, 2)
                ELSE IF probe.originalState = "readable"
                THEN [probe EXCEPT
                         !.step = "returned",
                         !.output = [returned |-> TRUE, label |-> RawLabel(probe.tool),
                                     content |-> "raw"]]
                ELSE ToolCatches(probe)
    /\ ProbeUnchanged

\* execute of get-trace / get-network-log: the path createFiltered... returned
\* is read and labelled by whether it includes "_filtered.trace" /
\* "_filtered.network"
ToolReadAndLabel ==
    /\ probe.kind = "tool"
    /\ probe.step = "read"
    /\ probe' =
          IF probe.path = probe.original /\ probe.originalState # "readable"
          THEN ToolCatches(probe)
          ELSE [probe EXCEPT
                   !.step = "returned",
                   !.output =
                      [returned |-> TRUE,
                       label |-> IF Includes(probe.path,
                                             "_filtered" \o ToolExtension(probe.tool))
                                 THEN FilteredLabel(probe.tool)
                                 ELSE UnfilteredLabel(probe.tool),
                       content |-> IF probe.path = probe.original THEN "raw"
                                   ELSE probe.filtered.content]]
    /\ ProbeUnchanged

InitTools ==
    /\ InitFilters
    /\ \E tool \in ToolNames, raw \in BOOLEAN, dir \in TraceDirectories,
          originalState \in InputStates, originalMtime \in 1..MaxTime,
          outputState \in {"unwritable", "full", "writable"},
          filteredMtime \in 0..MaxTime :
          probe = [kind |-> "tool", tool |-> tool, raw |-> raw,
                   original |-> OriginalPath(tool, dir),
                   originalState |-> originalState, originalMtime |-> originalMtime,
                   outputState |-> outputState,
                   filtered |-> IF filteredMtime = 0 THEN NoFile
                                ELSE [exists |-> TRUE, mtime |-> filteredMtime,
                                      content |-> "stale"],
                   step |-> "called", pass |-> 0, check |-> NoCheck, ran |-> FALSE,
                   filterFailed |-> FALSE, path |-> "", output |-> NoToolOutput]

NextTools ==
    \/ ToolExtract
    \/ CreateCheckCache
    \/ CreateRunFilter
    \/ ToolBody
    \/ ToolReadAndLabel

SpecTools == InitTools /\ [][NextTools]_vars

\* C26: createFilteredTrace / createFilteredNetworkTrace return the existing
\* filtered path without filtering iff a filtered file exists that is strictly
\* newer than the original; with no filtered file, or one as old as or older
\* than the original, the filter is run.
C26_CacheUsedIffStrictlyNewer ==
    (probe.kind = "tool" /\ probe.check.done /\ probe.path # "") =>
        /\ ~probe.ran <=> /\ probe.check.existed
                          /\ probe.check.filteredMtime > probe.check.originalMtime
        /\ ~probe.ran => probe.path = FilteredPath(probe.tool, probe.original)

\* a filtered file exactly as old as its original was found and filtered again
C26_Witness ==
    /\ probe.kind = "tool"
    /\ probe.check.done
    /\ probe.check.existed
    /\ probe.check.filteredMtime = probe.check.originalMtime
    /\ probe.ran
    /\ probe.path = FilteredPath(probe.tool, probe.original)

\* C27: when the filtering call fails inside createFilteredTrace /
\* createFilteredNetworkTrace, the original path is returned and the tool
\* returns the raw content under "Trace content:" / "Network log:"; the
\* "Filtered ..." label is used only when the returned path is the filtered path.
C27_FailedFilterGivesRawUnderPlainLabel ==
    (probe.kind = "tool" /\ probe.pass = 2 /\ probe.step = "returned") =>
        /\ probe.filterFailed =>
              /\ probe.path = probe.original
              /\ probe.output.label = UnfilteredLabel(probe.tool)
              /\ probe.output.content = "raw"
        /\ probe.output.label = FilteredLabel(probe.tool) =>
              probe.path = FilteredPath(probe.tool, probe.original)

-----------------------------------------------------------------------------
(* The run-tests tool *)

playwrightConfigPath == "/srv/app/playwright.config.ts"

\* the values of the timeout parameter: unlimited, the smallest and the default
TimeoutValues == {0, 1, 10000}

GrepValues == {"", ".*", "home"}

\* the command line before the optional arguments
BaseCmdArgs ==
    <<"test", "--config", playwrightConfigPath, "--trace", "on", "--retries", "0",
      "--max-failures", "0", "--reporter", "list">>

\* if (value) cmdArgs.push(...pushed)
PushIf(cmdArgs, truthy, pushed) == IF truthy THEN cmdArgs \o pushed ELSE cmdArgs

\* the if statements of execute, in their order; a number is truthy unless 0, a
\* string unless empty
BuildCmdArgs(args) ==
    PushIf(PushIf(PushIf(PushIf(PushIf(PushIf(PushIf(BaseCmdArgs,
        args.grep # "", <<"-g", args.grep>>),
        args.debug, <<"--debug">>),
        args.ui, <<"--ui">>),
        args.timeout # 0, <<"--timeout", ToString(args.timeout)>>),
        args.headed, <<"--headed">>),
        args.lastFailed, <<"--last-failed">>),
        args.fullyParallel, <<"--fully-parallel">>)

\* execute of run-tests up to the subprocess call
RunTestsBuildCommand ==
    /\ probe.kind = "run-tests"
    /\ probe.step = "called"
    /\ probe' = [probe EXCEPT !.step = "built", !.cmdArgs = BuildCmdArgs(probe.args)]
    /\ ProbeUnchanged

\* the subprocess runs the command line; its failure is caught and reported
RunTestsExecute ==
    /\ probe.kind = "run-tests"
    /\ probe.step = "built"
    /\ \E succeeds \in BOOLEAN :
          probe' = [probe EXCEPT
                       !.step = "returned",
                       !.output = IF succeeds THEN "Trace directories:"
                                  ELSE "Test execution failed"]
    /\ ProbeUnchanged

InitRunTests ==
    /\ InitFilters
    /\ \E grep \in GrepValues, timeout \in TimeoutValues,
          flags \in [{"debug", "ui", "headed", "lastFailed", "fullyParallel"} -> BOOLEAN] :
          probe = [kind |-> "run-tests",
                   args |-> [grep |-> grep, timeout |-> timeout, debug |-> flags.debug,
                             ui |-> flags.ui, headed |-> flags.headed,
                             lastFailed |-> flags.lastFailed,
                             fullyParallel |-> flags.fullyParallel],
                   step |-> "called", cmdArgs |-> <<>>, output |-> ""]

NextRunTests == RunTestsBuildCommand \/ RunTestsExecute

SpecRunTests == InitRunTests /\ [][NextRunTests]_vars

\* C28: every value of the timeout parameter, 0 for unlimited included, is
\* passed to the Playwright command line as --timeout followed by the value.
C28_TimeoutAlwaysPassed ==
    (probe.kind = "run-tests" /\ probe.step # "called") =>
        \E i \in 1..(Len(probe.cmdArgs) - 1) :
           /\ probe.cmdArgs[i] = "--timeout"
           /\ probe.cmdArgs[i + 1] = ToString(probe.args.timeout)

-----------------------------------------------------------------------------
(* One line, one effect *)

\* map after is map before with exactly one key counted once more
C29_OneCategoryMore(before, after) ==
    \E k \in DOMAIN after :
       /\ after[k] = (IF k \in DOMAIN before THEN before[k] ELSE 0) + 1
       /\ DOMAIN after = DOMAIN before \cup {k}
       /\ \A j \in DOMAIN before \ {k} : after[j] = before[j]

\* the line was appended as one record and nothing was counted as removed
C29_Appended(removedBefore, removedAfter, mapBefore, mapAfter) ==
    /\ Len(filteredEntries') = Len(filteredEntries) + 1
    /\ SubSeq(filteredEntries', 1, Len(filteredEntries)) = filteredEntries
    /\ removedAfter = removedBefore
    /\ mapAfter = mapBefore

\* the line was counted as removed once, under one category, and not appended
C29_Removed(removedBefore, removedAfter, mapBefore, mapAfter) ==
    /\ filteredEntries' = filteredEntries
    /\ removedAfter = removedBefore + 1
    /\ C29_OneCategoryMore(mapBefore, mapAfter)

\* C29: every non-blank line taken by either loop is either appended to the
\* output as exactly one record, or counted once in the removed counter and once
\* in one category, never both and never neither; a blank line does neither;
\* and when a call on a fresh instance returns, the records written plus the
\* removed count equal the number of non-blank input lines.
C29_EveryLineKeptOrRemovedOnce ==
    [][/\ (pc = "trace" /\ idx' = idx + 1) =>
             IF Trim(lines[idx]) = ""
             THEN filteredEntries' = filteredEntries
                  /\ traceStats'.removedEntries = traceStats.removedEntries
             ELSE C29_Appended(traceStats.removedEntries, traceStats'.removedEntries,
                               traceStats.removedByType, traceStats'.removedByType)
                  # C29_Removed(traceStats.removedEntries, traceStats'.removedEntries,
                                traceStats.removedByType, traceStats'.removedByType)
       /\ (pc = "network" /\ idx' = idx + 1) =>
             IF Trim(lines[idx]) = ""
             THEN filteredEntries' = filteredEntries
                  /\ netStats'.removedRequests = netStats.removedRequests
             ELSE C29_Appended(netStats.removedRequests, netStats'.removedRequests,
                               netStats.removedByCategory, netStats'.removedByCategory)
                  # C29_Removed(netStats.removedRequests, netStats'.removedRequests,
                                netStats.removedByCategory, netStats'.removedByCategory)
       /\ (pc' = "returned" /\ lastCall'.pipeline = "trace") =>
             Len(lastCall'.output.records) + lastCall'.returned.removedEntries
             = Cardinality(NonBlank(lastCall'.input))
       /\ (pc' = "returned" /\ lastCall'.pipeline = "network" /\ netCalls' = 1) =>
             Len(lastCall'.output.records) + lastCall'.returned.removedRequests
             = Cardinality(NonBlank(lastCall'.input))]_vars

\* a network call on a fresh instance has returned after it removed one record
\* and wrote another
C29_Witness ==
    /\ pc = "returned"
    /\ lastCall.pipeline = "network"
    /\ netCalls = 1
    /\ lastCall.returned.removedRequests = 1
    /\ Len(lastCall.output.records) = 1
    /\ Cardinality(NonBlank(lastCall.input)) = 2

-----------------------------------------------------------------------------
(* One line of a network trace through the loop of filterNetworkTrace *)

\* a record with a snapshot, one with request and response at top level, one an
\* analytics request, and a line that is not JSON
NetLineProbes == {LoginJson, FlatJson, AnalyticsJson, NetBadLine}

\* the body of the loop on a fresh filter: the records pushed and the statistics
ProbeNetLine ==
    /\ probe.kind = "line"
    /\ ~probe.done
    /\ probe' = [probe EXCEPT
                    !.done = TRUE,
                    !.out = netLineStep(EmptyNetStats, <<>>, probe.line,
                                        probe.options).out,
                    !.stats = netLineStep(EmptyNetStats, <<>>, probe.line,
                                          probe.options).stats]
    /\ ProbeUnchanged

InitNetLine ==
    /\ InitFilters
    /\ \E line \in NetLineProbes, o \in NetTransformOptions :
          probe = [kind |-> "line", line |-> line, options |-> o, done |-> FALSE,
                   out |-> <<>>, stats |-> EmptyNetStats]

SpecNetLine == InitNetLine /\ [][ProbeNetLine]_vars

\* C30: a network line that parsed to a JSON object, with or without an outer
\* snapshot field, is never emitted as a "malformed" placeholder, whatever the
\* options; a record counted in keptRequests is emitted as itself.
C30_ParsedRecordNeverMalformed ==
    (probe.kind = "line" /\ probe.done /\ JSONparse(Trim(probe.line)).ok
        /\ JSONparse(Trim(probe.line)).value # JsonNull) =>
        \A i \in DOMAIN probe.out :
           ~(Has(probe.out[i], "type") /\ probe.out[i].type = "malformed")

====
